---- MODULE Spec2Model ----
(***************************************************************************)
(* repligrate: the change optimizer (src/src/optimizer.rs) and the pgroll  *)
(* operation generator (src/src/migration.rs) over SchemaChange records    *)
(* (src/src/schema.rs), the statement and WAL message parsers              *)
(* (src/src/schema.rs, src/src/wal.rs), the pause flag (src/src/state.rs)  *)
(* and the listener that ties them together (src/src/replication.rs,       *)
(* src/src/db.rs).                                                         *)
(*                                                                         *)
(* Text.  A Rust String is modelled as the sequence of its chars.  Every   *)
(* index the code computes (str::find) or uses (&s[i..]) is a BYTE offset  *)
(* into the UTF-8 encoding, so each char keeps its encoded length, and     *)
(* to_uppercase maps a char to the chars Unicode gives it, which may have  *)
(* another encoded length than the original.  A slice at an offset that is *)
(* out of range or inside a char panics.                                   *)
(***************************************************************************)
EXTENDS Integers, Sequences, FiniteSets, TLC

VARIABLES changes, phase, optimized, reoptimized, operations, runs,
          wal, cells, handles, clones, last, threads,
          clock, files, outcome, db

\* The batch of a caller and what the calls made on it returned.
core_vars == <<changes, phase, optimized, reoptimized, operations, runs>>

\* The AtomicBool allocations, the ListenerState values that point to them,
\* the value each ListenerState was cloned from, the last call made, and
\* how far each of the two threads that call toggle has come.
state_vars == <<cells, handles, clones, last, threads>>

\* The clock, the output directory, what the last generate_migration did,
\* and the replication slot and publication of the database.
listener_vars == <<clock, files, outcome, db>>

vars == <<core_vars, wal, state_vars, listener_vars>>

(***************************************************************************)
(* Results.  A call returns Ok(value) or panics.                           *)
(***************************************************************************)
Ok(v) == [panic |-> FALSE, out |-> v]

Panic == [panic |-> TRUE, out |-> <<>>]

(***************************************************************************)
(* Chars.  "<LF>" is the line feed and "<BACKTICK>" the backtick.          *)
(* "<U+0131>" is the dotless i: 2 bytes, uppercase "I", 1 byte.            *)
(* "<U+0149>" is the n preceded by an apostrophe: 2 bytes, uppercase       *)
(* U+02BC followed by "N", 3 bytes.                                        *)
(***************************************************************************)
ascii_uppercase ==
    ("a" :> "A") @@ ("b" :> "B") @@ ("c" :> "C") @@ ("d" :> "D") @@ ("e" :> "E") @@
    ("f" :> "F") @@ ("g" :> "G") @@ ("h" :> "H") @@ ("i" :> "I") @@ ("j" :> "J") @@
    ("k" :> "K") @@ ("l" :> "L") @@ ("m" :> "M") @@ ("n" :> "N") @@ ("o" :> "O") @@
    ("p" :> "P") @@ ("q" :> "Q") @@ ("r" :> "R") @@ ("s" :> "S") @@ ("t" :> "T") @@
    ("u" :> "U") @@ ("v" :> "V") @@ ("w" :> "W") @@ ("x" :> "X") @@ ("y" :> "Y") @@
    ("z" :> "Z")

TwoByteChars == {"<U+0131>", "<U+0149>", "<U+02BC>"}

\* char::len_utf8
len_utf8(c) == IF c \in TwoByteChars THEN 2 ELSE 1

\* char::is_whitespace
is_whitespace(c) == c \in {" ", "<LF>"}

\* char::to_uppercase: the chars of the uppercase form.
char_to_uppercase(c) ==
    IF c = "<U+0131>" THEN <<"I">>
    ELSE IF c = "<U+0149>" THEN <<"<U+02BC>", "N">>
    ELSE IF c \in DOMAIN ascii_uppercase THEN <<ascii_uppercase[c]>>
    ELSE <<c>>

\* str::to_uppercase: char by char; a text in which a char has an
\* uppercase form of two chars is taken in halves.
RECURSIVE to_uppercase(_)
to_uppercase(s) ==
    IF \A i \in DOMAIN s : Len(char_to_uppercase(s[i])) = 1
    THEN [i \in DOMAIN s |-> char_to_uppercase(s[i])[1]]
    ELSE IF Len(s) = 1 THEN char_to_uppercase(s[1])
    ELSE to_uppercase(SubSeq(s, 1, Len(s) \div 2))
             \o to_uppercase(SubSeq(s, Len(s) \div 2 + 1, Len(s)))

\* str::len: the length in bytes.
str_len(s) == Len(s) + Cardinality({i \in DOMAIN s : len_utf8(s[i]) = 2})

\* The byte offset of the char at position k; -1 (None) for position 0.
byte_offset(s, k) == IF k = 0 THEN -1 ELSE str_len(SubSeq(s, 1, k - 1))

\* The first position from k on at which needle occurs in hay, 0 if none.
match_from(hay, needle, k) ==
    LET found == {j \in k..(Len(hay) - Len(needle) + 1) :
                     /\ needle # <<>> => hay[j] = needle[1]
                     /\ SubSeq(hay, j, j + Len(needle) - 1) = needle}
    IN  IF found = {} THEN 0 ELSE CHOOSE j \in found : \A i \in found : j <= i

\* str::find(&str): the byte offset of the first occurrence, -1 for None.
str_find(hay, needle) == byte_offset(hay, match_from(hay, needle, 1))

\* str::contains(&str)
contains(hay, needle) == match_from(hay, needle, 1) # 0

\* The first position from k on that holds a whitespace char, 0 if none.
whitespace_from(s, k) ==
    LET found == {j \in k..Len(s) : is_whitespace(s[j])}
    IN  IF found = {} THEN 0 ELSE CHOOSE j \in found : \A i \in found : j <= i

\* str::find with the is_whitespace closure: a byte offset, -1 for None.
find_whitespace(s) == byte_offset(s, whitespace_from(s, 1))

\* k chars and then the chars counted in the rest, -1 when there the offset
\* is no boundary.
chars_and(k, rest) == IF rest = -1 THEN -1 ELSE k + rest

\* The number of chars that end at byte offset b; -1 when b is out of range
\* or falls inside a char (str::is_char_boundary is false).  The offset is
\* looked for in the half of the text that holds it.
RECURSIVE chars_before(_, _)
chars_before(s, b) ==
    IF b = 0 THEN 0
    ELSE IF b < 0 \/ s = <<>> THEN -1
    ELSE IF Len(s) = 1 THEN (IF b = len_utf8(s[1]) THEN 1 ELSE -1)
    ELSE IF b <= str_len(SubSeq(s, 1, Len(s) \div 2))
    THEN chars_before(SubSeq(s, 1, Len(s) \div 2), b)
    ELSE chars_and(Len(s) \div 2,
                   chars_before(SubSeq(s, Len(s) \div 2 + 1, Len(s)),
                                b - str_len(SubSeq(s, 1, Len(s) \div 2))))

skip_chars(s, k) == IF k = -1 THEN Panic ELSE Ok(SubSeq(s, k + 1, Len(s)))

take_chars(s, k) == IF k = -1 THEN Panic ELSE Ok(SubSeq(s, 1, k))

\* &s[b..]: panics unless b is a char boundary of s.
slice_from(s, b) == skip_chars(s, chars_before(s, b))

\* &s[..b]
slice_to(s, b) == take_chars(s, chars_before(s, b))

RECURSIVE trim_start_matches(_, _)
trim_start_matches(s, set) ==
    IF s # <<>> /\ Head(s) \in set THEN trim_start_matches(Tail(s), set) ELSE s

RECURSIVE trim_end_matches(_, _)
trim_end_matches(s, set) ==
    IF s # <<>> /\ s[Len(s)] \in set
    THEN trim_end_matches(SubSeq(s, 1, Len(s) - 1), set)
    ELSE s

\* str::trim
trim(s) == trim_end_matches(trim_start_matches(s, {" ", "<LF>"}), {" ", "<LF>"})

\* trim_matches on the double quote and the backtick
trim_quotes(s) ==
    trim_end_matches(trim_start_matches(s, {"\"", "<BACKTICK>"}), {"\"", "<BACKTICK>"})

\* [String]::join(sep)
RECURSIVE join(_, _)
join(parts, sep) ==
    IF parts = <<>> THEN <<>>
    ELSE IF Len(parts) = 1 THEN parts[1]
    ELSE parts[1] \o sep \o join(Tail(parts), sep)

(***************************************************************************)
(* Results of several calls, combined: a panic in any of them unwinds the  *)
(* caller.                                                                 *)
(***************************************************************************)
\* head pushed in front of the elements of rest.
and_push(head, rest) ==
    IF head.panic \/ rest.panic THEN Panic ELSE Ok(<<head.out>> \o rest.out)

\* The elements of first followed by those of rest.
and_extend(first, rest) ==
    IF first.panic \/ rest.panic THEN Panic ELSE Ok(first.out \o rest.out)

\* Some(v) of a filter_map closure: the one element it contributes.
one_element(result) == IF result.panic THEN Panic ELSE Ok(<<result.out>>)

(***************************************************************************)
(* schema.rs: ChangeType and SchemaChange.                                 *)
(***************************************************************************)
NamedKinds ==
    {"CreateTable", "DropTable", "AlterTable", "AddColumn", "DropColumn",
     "ModifyColumn", "AddConstraint", "DropConstraint", "CreateIndex", "DropIndex"}

\* A ChangeType value: one of the ten named variants, or Other(tag).
Kind(variant) == [variant |-> variant, tag |-> <<>>]

Other(tag) == [variant |-> "Other", tag |-> tag]

\* SchemaChange::new; the timestamp is the time of construction.
SchemaChange_new(change_type, schema_name, object_name, sql, now) ==
    [change_type |-> change_type,
     schema_name |-> schema_name,
     object_name |-> object_name,
     details     |-> [sql |-> sql, columns |-> "None", constraints |-> "None",
                      metadata |-> {}],
     timestamp   |-> now]

(***************************************************************************)
(* optimizer.rs: MigrationOptimizer.                                       *)
(***************************************************************************)
str_ALTER_TABLE == <<"A", "L", "T", "E", "R", " ", "T", "A", "B", "L", "E">>

str_ADD_COLUMN == <<"A", "D", "D", " ", "C", "O", "L", "U", "M", "N">>

str_ADD_CONSTRAINT == <<"A", "D", "D", " ", "C", "O", "N", "S", "T", "R", "A", "I", "N", "T">>

\* sql[idx..] for Some(idx), nothing for None: idx is an offset into the
\* UPPERCASED sql and is used on the sql itself.
clause_from(sql, idx) ==
    IF idx = -1 THEN Ok(<<>>) ELSE one_element(slice_from(sql, idx))

\* The filter_map closure of merge_add_columns and merge_add_constraints.
anchored_clause(sql, anchor) == clause_from(sql, str_find(to_uppercase(sql), anchor))

\* The clauses of the members that hold the anchor, in order.
RECURSIVE anchored_clauses(_, _)
anchored_clauses(members, anchor) ==
    IF members = <<>> THEN Ok(<<>>)
    ELSE and_extend(anchored_clause(Head(members).details.sql, anchor),
                    anchored_clauses(Tail(members), anchor))

\* after_table[space_idx..].trim(), kept when it is not empty.
trimmed_clause(clause) == IF clause = <<>> THEN Ok(<<>>) ELSE Ok(<<clause>>)

clause_after_whitespace(after_table, space_idx) ==
    IF space_idx = -1 THEN Ok(<<>>)
    ELSE trimmed_clause(trim(slice_from(after_table, space_idx).out))

clause_after_table(after_table) ==
    IF after_table.panic THEN Panic
    ELSE clause_after_whitespace(after_table.out, find_whitespace(after_table.out))

clause_after_alter(sql, alter_idx) ==
    IF alter_idx = -1 THEN Ok(<<>>)
    ELSE clause_after_table(slice_from(sql, alter_idx + 11))

\* The filter_map closure of merge_alter_tables: what follows the first
\* whitespace after "ALTER TABLE", trimmed; nothing when that is empty.
alter_clause(sql) == clause_after_alter(sql, str_find(to_uppercase(sql), str_ALTER_TABLE))

RECURSIVE alter_clauses(_)
alter_clauses(members) ==
    IF members = <<>> THEN Ok(<<>>)
    ELSE and_extend(alter_clause(Head(members).details.sql),
                    alter_clauses(Tail(members)))

\* merged_sql: "ALTER TABLE <object_name> <clauses joined by ', '>;"
merged_sql(object_name, clauses) ==
    str_ALTER_TABLE \o <<" ">> \o object_name \o <<" ">>
        \o join(clauses, <<",", " ">>) \o <<";">>

\* The record a merge returns: a clone of the first member with the sql
\* replaced.
merged_record(first, clauses) ==
    IF clauses.panic THEN Panic
    ELSE Ok([first EXCEPT !.details.sql = merged_sql(first.object_name, clauses.out)])

merge_add_columns(members) ==
    merged_record(members[1], anchored_clauses(members, str_ADD_COLUMN))

merge_alter_tables(members) ==
    merged_record(members[1], alter_clauses(members))

merge_add_constraints(members) ==
    merged_record(members[1], anchored_clauses(members, str_ADD_CONSTRAINT))

\* The conditions of the three collecting loops of merge_table_changes.
continues_run(current, next) ==
    CASE current.change_type = Kind("AddColumn") ->
            next.change_type = Kind("AddColumn")
      [] current.change_type = Kind("AlterTable") ->
            /\ next.change_type = Kind("AlterTable")
            /\ next.object_name = current.object_name
      [] current.change_type = Kind("AddConstraint") ->
            /\ next.change_type = Kind("AddConstraint")
            /\ next.object_name = current.object_name
      [] OTHER -> FALSE

\* The index j at which the collecting loop started at i + 1 stops.
RECURSIVE run_end(_, _, _)
run_end(group, current, j) ==
    IF j <= Len(group) /\ continues_run(current, group[j])
    THEN run_end(group, current, j + 1)
    ELSE j

\* The index after the window that starts at i.
next_i(group, i) == run_end(group, group[i], i + 1)

RECURSIVE table_runs(_, _)

\* table_runs with the "continue" after a merge left out: the merged run is
\* pushed, then the current record is pushed as it is and i goes on by one.
table_runs_without_continue(group, i) ==
    IF i > Len(group) THEN <<>>
    ELSE IF next_i(group, i) - i > 1
    THEN <<SubSeq(group, i, next_i(group, i) - 1), <<group[i]>>>> \o table_runs(group, i + 1)
    ELSE <<<<group[i]>>>> \o table_runs(group, i + 1)

\* The windows merge_table_changes cuts its group into from index i on: a
\* collected run of two or more records, or the single current record.
table_runs(group, i) ==
    IF i > Len(group) THEN <<>>
    ELSE <<SubSeq(group, i, next_i(group, i) - 1)>> \o table_runs(group, next_i(group, i))

\* merge_run without the "len() > 1" tests: a window of one record is
\* merged like a longer one.
merge_run_of_any_length(run) ==
    CASE run[1].change_type = Kind("AddColumn") -> merge_add_columns(run)
      [] run[1].change_type = Kind("AlterTable") -> merge_alter_tables(run)
      [] run[1].change_type = Kind("AddConstraint") -> merge_add_constraints(run)
      [] OTHER -> Ok(run[1])

\* What one window pushes to the result.
merge_run(run) ==
    IF Len(run) = 1 THEN Ok(run[1])
    ELSE CASE run[1].change_type = Kind("AddColumn") -> merge_add_columns(run)
           [] run[1].change_type = Kind("AlterTable") -> merge_alter_tables(run)
           [] run[1].change_type = Kind("AddConstraint") -> merge_add_constraints(run)

RECURSIVE merge_runs(_)
merge_runs(windows) ==
    IF windows = <<>> THEN Ok(<<>>)
    ELSE and_push(merge_run(Head(windows)), merge_runs(Tail(windows)))

merge_table_changes(group) == merge_runs(table_runs(group, 1))

\* The key of the HashMap that groups the changes.
group_key(change) == change.schema_name \o <<".">> \o change.object_name

group_keys(batch) == {group_key(batch[i]) : i \in 1..Len(batch)}

\* pending_changes[key] with the newest change first.
pending_changes_newest_first(batch, key) ==
    LET group == SelectSeq(batch, LAMBDA c : group_key(c) = key)
    IN  [i \in 1..Len(group) |-> group[Len(group) + 1 - i]]

\* pending_changes[key]: the changes of one key, in arrival order.
pending_changes(batch, key) == SelectSeq(batch, LAMBDA c : group_key(c) = key)

\* The orders in which "for (_, group) in pending_changes" may visit the
\* groups: a std HashMap iterates in an order that depends on its randomly
\* seeded hasher, so every order of the keys is possible.
iteration_orders(batch) ==
    {order \in [1..Cardinality(group_keys(batch)) -> group_keys(batch)] :
        \A a, b \in DOMAIN order : order[a] = order[b] => a = b}

RECURSIVE extend_groups(_, _)
extend_groups(batch, order) ==
    IF order = <<>> THEN Ok(<<>>)
    ELSE and_extend(merge_table_changes(pending_changes(batch, Head(order))),
                    extend_groups(batch, Tail(order)))

\* MigrationOptimizer::optimize, the groups visited in the given order.
optimize(batch, order) ==
    IF batch = <<>> THEN Ok(batch) ELSE extend_groups(batch, order)

(***************************************************************************)
(* schema.rs: SchemaChangeParser.  An Option is the sequence of the zero   *)
(* or one values it holds.                                                 *)
(***************************************************************************)
\* str::starts_with(&str)
starts_with(s, prefix) == Len(s) >= Len(prefix) /\ SubSeq(s, 1, Len(prefix)) = prefix

\* The position from k on of the first char that is not whitespace, 0 if
\* there is none.
RECURSIVE token_from(_, _)
token_from(s, k) ==
    IF k > Len(s) THEN 0
    ELSE IF is_whitespace(s[k]) THEN token_from(s, k + 1)
    ELSE k

\* The tokens of s from the token that starts at k on, token_end being the
\* position of that token's last char; none for k = 0.
RECURSIVE tokens_from(_, _)
tokens_from(s, k) ==
    LET token_end == IF whitespace_from(s, k) = 0 THEN Len(s)
                     ELSE whitespace_from(s, k) - 1
    IN  IF k = 0 THEN <<>>
        ELSE <<SubSeq(s, k, token_end)>> \o tokens_from(s, token_from(s, token_end + 1))

\* str::split_whitespace, collected
split_whitespace(s) == tokens_from(s, token_from(s, 1))

\* The loop of extract_table_name and extract_index_name from part i on:
\* the part after the first part that reads as the keyword and has a part
\* after it, its quotes trimmed; String::new() when there is none.
RECURSIVE name_after_keyword(_, _, _)
name_after_keyword(parts, keyword, i) ==
    IF i > Len(parts) THEN <<>>
    ELSE IF to_uppercase(parts[i]) = keyword /\ i + 1 <= Len(parts)
    THEN trim_quotes(parts[i + 1])
    ELSE name_after_keyword(parts, keyword, i + 1)

extract_table_name(sql) == name_after_keyword(split_whitespace(sql), <<"T", "A", "B", "L", "E">>, 1)

\* extract_index_name looking for the anchor of extract_table_name.
extract_index_name_after_table(sql) ==
    name_after_keyword(split_whitespace(sql), <<"T", "A", "B", "L", "E">>, 1)

extract_index_name(sql) == name_after_keyword(split_whitespace(sql), <<"I", "N", "D", "E", "X">>, 1)

\* The first token with no default: the empty string when there is none.
first_token_or_empty(parts) == IF parts = <<>> THEN <<>> ELSE parts[1]

\* sql_upper.split_whitespace().next().unwrap_or("UNKNOWN")
first_token_or_unknown(parts) == IF parts = <<>> THEN <<"U", "N", "K", "N", "O", "W",
        "N">> ELSE parts[1]

\* Some((change_type, object_name))
parsed(change_type, object_name) ==
    <<[change_type |-> change_type, object_name |-> object_name]>>

\* parse_alter_table with DROP COLUMN looked for before ADD COLUMN.
parse_alter_table_drop_first(sql, sql_upper) ==
    IF contains(sql_upper, <<"D", "R", "O", "P", " ", "C", "O", "L", "U", "M", "N">>)
    THEN parsed(Kind("DropColumn"), extract_table_name(sql))
    ELSE IF contains(sql_upper, <<"A", "D", "D", " ", "C", "O", "L", "U", "M", "N">>)
    THEN parsed(Kind("AddColumn"), extract_table_name(sql))
    ELSE IF contains(sql_upper, <<"A", "L", "T", "E", "R", " ", "C", "O", "L", "U", "M", "N">>)
    THEN parsed(Kind("ModifyColumn"), extract_table_name(sql))
    ELSE IF contains(sql_upper, <<"A", "D", "D", " ", "C", "O", "N", "S", "T", "R", "A", "I",
            "N", "T">>)
    THEN parsed(Kind("AddConstraint"), extract_table_name(sql))
    ELSE IF contains(sql_upper, <<"D", "R", "O", "P", " ", "C", "O", "N", "S", "T", "R", "A",
            "I", "N", "T">>)
    THEN parsed(Kind("DropConstraint"), extract_table_name(sql))
    ELSE parsed(Kind("AlterTable"), extract_table_name(sql))

\* The ALTER TABLE arm of parse.
parse_alter_table(sql, sql_upper) ==
    IF contains(sql_upper, <<"A", "D", "D", " ", "C", "O", "L", "U", "M", "N">>)
    THEN parsed(Kind("AddColumn"), extract_table_name(sql))
    ELSE IF contains(sql_upper, <<"D", "R", "O", "P", " ", "C", "O", "L", "U", "M", "N">>)
    THEN parsed(Kind("DropColumn"), extract_table_name(sql))
    ELSE IF contains(sql_upper, <<"A", "L", "T", "E", "R", " ", "C", "O", "L", "U", "M", "N">>)
    THEN parsed(Kind("ModifyColumn"), extract_table_name(sql))
    ELSE IF contains(sql_upper, <<"A", "D", "D", " ", "C", "O", "N", "S", "T", "R", "A", "I",
            "N", "T">>)
    THEN parsed(Kind("AddConstraint"), extract_table_name(sql))
    ELSE IF contains(sql_upper, <<"D", "R", "O", "P", " ", "C", "O", "N", "S", "T", "R", "A",
            "I", "N", "T">>)
    THEN parsed(Kind("DropConstraint"), extract_table_name(sql))
    ELSE parsed(Kind("AlterTable"), extract_table_name(sql))

\* parse, sql_upper being sql.trim().to_uppercase()
parse_upper(sql, sql_upper) ==
    IF starts_with(sql_upper, <<"C", "R", "E", "A", "T", "E", " ", "T", "A", "B", "L", "E">>)
    THEN parsed(Kind("CreateTable"), extract_table_name(sql))
    ELSE IF starts_with(sql_upper, <<"D", "R", "O", "P", " ", "T", "A", "B", "L", "E">>)
    THEN parsed(Kind("DropTable"), extract_table_name(sql))
    ELSE IF starts_with(sql_upper, str_ALTER_TABLE)
    THEN parse_alter_table(sql, sql_upper)
    ELSE IF starts_with(sql_upper, <<"C", "R", "E", "A", "T", "E", " ", "I", "N", "D", "E", "X">>)
    THEN parsed(Kind("CreateIndex"), extract_index_name(sql))
    ELSE IF starts_with(sql_upper, <<"D", "R", "O", "P", " ", "I", "N", "D", "E", "X">>)
    THEN parsed(Kind("DropIndex"), extract_index_name(sql))
    ELSE parsed(Other(first_token_or_unknown(split_whitespace(sql_upper))), <<>>)

\* SchemaChangeParser::parse
parse(sql) == parse_upper(sql, to_uppercase(trim(sql)))

(***************************************************************************)
(* wal.rs: WalMessageParser.                                               *)
(***************************************************************************)
\* char::is_ascii_hexdigit
is_ascii_hexdigit(c) ==
    c \in {"0", "1", "2", "3", "4", "5", "6", "7", "8", "9",
           "a", "b", "c", "d", "e", "f", "A", "B", "C", "D", "E", "F"}

\* str::split(char), collected: k is the position of the first separator,
\* 0 when there is none.
RECURSIVE split(_, _)
split(s, separator) ==
    LET k == match_from(s, <<separator>>, 1)
    IN  IF k = 0 THEN <<s>>
        ELSE <<SubSeq(s, 1, k - 1)>> \o split(SubSeq(s, k + 1, Len(s)), separator)

\* The test extract_lsn makes on a part.
is_lsn(part) ==
    /\ contains(part, <<"/">>)
    /\ str_len(part) > 2
    /\ Len(split(part, "/")) = 2
    /\ \A n \in 1..2 :
          \A k \in DOMAIN split(part, "/")[n] : is_ascii_hexdigit(split(part, "/")[n][k])

\* The loop of extract_lsn from part i on: Some(part) for the first part
\* that passes the test, None when the parts are exhausted.
RECURSIVE first_lsn(_, _)
first_lsn(parts, i) ==
    IF i > Len(parts) THEN <<>>
    ELSE IF is_lsn(parts[i]) THEN <<parts[i]>>
    ELSE first_lsn(parts, i + 1)

extract_lsn(message) == first_lsn(split_whitespace(message), 1)

\* WalMessageParser::parse, timestamp being what the clock reads.
WalMessageParser_parse(message, timestamp) ==
    Ok(<<[lsn |-> IF extract_lsn(message) = <<>> THEN <<"0", "/",
            "0">> ELSE extract_lsn(message)[1],
          timestamp |-> timestamp,
          content |-> message,
          is_commit |-> contains(message, <<"C", "O", "M", "M", "I",
                  "T">>) \/ contains(message, <<"c", "o", "m", "m", "i", "t">>)]>>)

(***************************************************************************)
(* state.rs: ListenerState.  cells holds the AtomicBool allocations, and a *)
(* ListenerState is the record of the Arc it holds: the index of a cell.   *)
(***************************************************************************)
\* ListenerState::is_paused
is_paused(h) == cells[handles[h].paused]

\* ListenerState::status
status(h) == IF is_paused(h) THEN <<"P", "A", "U", "S", "E", "D">> ELSE <<"L", "I", "S", "T",
        "E", "N", "I", "N", "G">>

(***************************************************************************)
(* migration.rs: PgrollMigration and MigrationGenerator.  A serde_json     *)
(* object is the sequence of its members, each [key, value]; json!({}) is  *)
(* the empty sequence.  An Option<String> is the sequence of the zero or   *)
(* one strings it holds.                                                   *)
(***************************************************************************)
str_CONSTRAINT == <<"C", "O", "N", "S", "T", "R", "A", "I", "N", "T">>

PgrollMigration_new(name) == [name |-> name, operations |-> <<>>]

add_operation(migration, operation) ==
    [migration EXCEPT !.operations = Append(migration.operations, operation)]

json_object(key, value) == <<[key |-> key, value |-> value]>>

create_table_operation(change) ==
    json_object("create_table", [name |-> change.object_name, columns |-> <<>>])

drop_table_operation(change) ==
    json_object("drop_table", [name |-> change.object_name])

add_column_operation(change) ==
    json_object("add_column",
                [table |-> change.object_name,
                 column |-> [name |-> "new_column", type |-> "text"]])

drop_column_operation(change) ==
    json_object("drop_column",
                [table |-> change.object_name, column |-> "column_name"])

alter_table_operation(change) ==
    json_object("raw_sql",
                [up |-> change.details.sql,
                 down |-> <<"-", "-", " ", "R", "o", "l", "l", "b", "a", "c", "k", " ", "f",
                         "o", "r", ":", " ">> \o change.details.sql])

create_index_operation(change) ==
    json_object("raw_sql",
                [up |-> change.details.sql,
                 down |-> <<"D", "R", "O", "P", " ", "I", "N", "D", "E", "X", " ", "I", "F",
                         " ", "E", "X", "I", "S", "T", "S", " ">> \o change.object_name])

drop_index_operation(change) ==
    json_object("raw_sql",
                [up |-> change.details.sql,
                 down |-> <<"-", "-", " ", "R", "e", "c", "r", "e", "a", "t", "e", " ", "i",
                         "n", "d", "e", "x", ":", " ">> \o change.object_name])

\* The first word of after_constraint: up to the first whitespace, or all
\* of it when it holds none.
first_word(after_constraint, space_idx) ==
    IF space_idx # -1 THEN slice_to(after_constraint, space_idx).out
    ELSE after_constraint

constraint_name_in(after_constraint) ==
    trim_quotes(first_word(after_constraint, find_whitespace(after_constraint)))

constraint_name_after(sliced) ==
    IF sliced.panic THEN Panic ELSE Ok(<<constraint_name_in(trim(sliced.out))>>)

\* idx is an offset into sql_upper and is used on the sql itself.
constraint_name_at(sql, idx) ==
    IF idx = -1 THEN Ok(<<>>) ELSE constraint_name_after(slice_from(sql, idx + 10))

extract_constraint_name(sql) ==
    constraint_name_at(sql, str_find(to_uppercase(sql), str_CONSTRAINT))

drop_constraint_sql(change, constraint_name) ==
    IF constraint_name.panic THEN Panic
    ELSE IF constraint_name.out # <<>>
    THEN Ok(str_ALTER_TABLE \o <<" ">> \o change.object_name
                \o <<" ", "D", "R", "O", "P", " ", "C", "O", "N", "S", "T", "R", "A", "I",
                        "N", "T", " ", "I", "F", " ", "E", "X", "I", "S", "T", "S",
                                " ">> \o constraint_name.out[1])
    ELSE Ok(<<"-", "-", " ", "U", "n", "a", "b", "l", "e", " ", "t", "o", " ", "g", "e", "n",
            "e", "r", "a", "t", "e", " ", "r", "o", "l", "l", "b", "a", "c", "k", " ", "f",
                    "o", "r", ":", " ">> \o change.details.sql)

generate_drop_constraint_sql(change) ==
    drop_constraint_sql(change, extract_constraint_name(change.details.sql))

raw_sql_operation(up, down) ==
    IF down.panic THEN Panic
    ELSE Ok(json_object("raw_sql", [up |-> up, down |-> down.out]))

add_constraint_operation(change) ==
    raw_sql_operation(change.details.sql, generate_drop_constraint_sql(change))

\* drop_constraint_operation naming the statement, as alter_table_operation
\* does, instead of the object.
drop_constraint_operation_naming_sql(change) ==
    json_object("raw_sql",
                [up |-> change.details.sql,
                 down |-> <<"-", "-", " ", "R", "e", "c", "r", "e", "a", "t", "e", " ", "c",
                         "o", "n", "s", "t", "r", "a", "i", "n", "t", ":",
                                 " ">> \o change.details.sql])

drop_constraint_operation(change) ==
    json_object("raw_sql",
                [up |-> change.details.sql,
                 down |-> <<"-", "-", " ", "R", "e", "c", "r", "e", "a", "t", "e", " ", "c",
                         "o", "n", "s", "t", "r", "a", "i", "n", "t", ":",
                                 " ">> \o change.object_name])

\* schema_change_to_operation with the DropIndex arm left out, so that
\* DropIndex falls to the wildcard arm.
schema_change_to_operation_without_drop_index(change) ==
    CASE change.change_type = Kind("CreateTable") -> Ok(create_table_operation(change))
      [] change.change_type = Kind("DropTable") -> Ok(drop_table_operation(change))
      [] change.change_type = Kind("AddColumn") -> Ok(add_column_operation(change))
      [] change.change_type = Kind("DropColumn") -> Ok(drop_column_operation(change))
      [] change.change_type = Kind("AlterTable") -> Ok(alter_table_operation(change))
      [] change.change_type = Kind("AddConstraint") -> add_constraint_operation(change)
      [] change.change_type = Kind("DropConstraint") -> Ok(drop_constraint_operation(change))
      [] change.change_type = Kind("CreateIndex") -> Ok(create_index_operation(change))
      [] OTHER -> Ok(<<>>)

schema_change_to_operation(change) ==
    CASE change.change_type = Kind("CreateTable") -> Ok(create_table_operation(change))
      [] change.change_type = Kind("DropTable") -> Ok(drop_table_operation(change))
      [] change.change_type = Kind("AddColumn") -> Ok(add_column_operation(change))
      [] change.change_type = Kind("DropColumn") -> Ok(drop_column_operation(change))
      [] change.change_type = Kind("AlterTable") -> Ok(alter_table_operation(change))
      [] change.change_type = Kind("AddConstraint") -> add_constraint_operation(change)
      [] change.change_type = Kind("DropConstraint") -> Ok(drop_constraint_operation(change))
      [] change.change_type = Kind("CreateIndex") -> Ok(create_index_operation(change))
      [] change.change_type = Kind("DropIndex") -> Ok(drop_index_operation(change))
      [] OTHER -> Ok(<<>>)

\* and_add_operation skipping the empty descriptor of an unsupported kind.
and_add_supported_operation(migration, operation) ==
    IF migration.panic \/ operation.panic THEN Panic
    ELSE IF operation.out = <<>> THEN migration
    ELSE Ok(add_operation(migration.out, operation.out))

\* migration.add_operation(operation) on the migration built so far.
and_add_operation(migration, operation) ==
    IF migration.panic \/ operation.panic THEN Panic
    ELSE Ok(add_operation(migration.out, operation.out))

\* The loop of generate over the changes.
RECURSIVE add_operations(_, _)
add_operations(migration, batch) ==
    IF batch = <<>> THEN migration
    ELSE add_operations(and_add_operation(migration, schema_change_to_operation(Head(batch))),
                        Tail(batch))

\* MigrationGenerator::generate
generate(name, batch) == add_operations(Ok(PgrollMigration_new(name)), batch)

(***************************************************************************)
(* replication.rs: ReplicationListener, with the writer of migration.rs    *)
(* and the publication of db.rs.  The clock counts half seconds of local   *)
(* time; files holds the output directory, a file per path; db holds the   *)
(* statements that created the replication slot and the publication, if   *)
(* they exist, and of the last call of listen its argument and the CREATE  *)
(* PUBLICATION statement it sent.  The listener holds ListenerState 1.     *)
(***************************************************************************)
\* The half seconds the clock runs for.
MaxClock == 2

\* What a call of generate_migration did: what is_paused returned, the
\* steps it ran, its result, the path it wrote, and whether a file was
\* there already.
Outcome(steps, result, written, replaced) ==
    [paused |-> is_paused(1), steps |-> steps, result |-> result, written |-> written,
     replaced |-> replaced]

\* chrono::Local::now().format("%Y%m%d_%H%M%S"), t half seconds into the
\* hour: the fraction of the second is dropped.
format_local(t) ==
    LET digit(n) == <<"0", "1", "2", "3", "4", "5", "6", "7", "8", "9">>[n + 1]
        two_digits(n) == <<digit(n \div 10), digit(n % 10)>>
    IN  <<"2", "0", "2", "4", "0", "1", "0", "1", "_", "0", "0">> \o two_digits((t \div 120) % 60) \o two_digits((t \div 2) % 60)

\* The filename MigrationWriter::write gives a migration at time t.
filename(migration, t) == format_local(t) \o <<"_">> \o migration.name \o <<".", "j", "s",
        "o", "n">>

\* std::fs::write: the file at the path is created, or replaced.
fs_write(directory, path, content) ==
    {file \in directory : file.path # path} \cup {[path |-> path, content |-> content]}

\* Lines 107-120 of generate_migration with the result of generate at hand,
\* the writer reading the clock at written_at, and the file system failing
\* or not.
write_migration(migration, written_at, io_ok) ==
    IF migration.panic
    THEN /\ outcome' = Outcome(<<"optimize", "generate">>, "panic", <<>>, FALSE)
         /\ UNCHANGED <<files, clock>>
    ELSE IF ~io_ok
    THEN /\ outcome' = Outcome(<<"optimize", "generate", "write">>, "Err", <<>>, FALSE)
         /\ clock' = written_at
         /\ UNCHANGED files
    ELSE /\ files' = fs_write(files, filename(migration.out, written_at), migration.out)
         /\ clock' = written_at
         /\ outcome' = Outcome(<<"optimize", "generate", "write">>, "Ok",
                               <<filename(migration.out, written_at)>>,
                               \E file \in files :
                                   file.path = filename(migration.out, written_at))

\* Lines 107-120 of generate_migration: the batch is optimized, generated
\* under the name of the time of the call, and written, which may take the
\* clock to the next half second.
generate_unpaused(batch) ==
    IF batch = <<>>
    THEN /\ outcome' = Outcome(<<>>, "Ok", <<>>, FALSE)
         /\ UNCHANGED <<files, clock>>
    ELSE \E order \in iteration_orders(batch), written_at \in {clock, clock + 1},
            io_ok \in BOOLEAN :
             /\ written_at <= MaxClock
             /\ write_migration(
                    IF optimize(batch, order).panic THEN Panic
                    ELSE generate(<<"m", "i", "g", "r", "a", "t", "i", "o", "n",
                            "_">> \o format_local(clock),
                                  optimize(batch, order).out),
                    written_at, io_ok)

\* listen, lines 41-45: the list of the trimmed pieces between the commas.
RECURSIVE trimmed(_)
trimmed(pieces) ==
    IF pieces = <<>> THEN <<>> ELSE <<trim(Head(pieces))>> \o trimmed(Tail(pieces))

table_list(tables) == IF tables = <<>> THEN <<>> ELSE <<trimmed(split(tables[1], ","))>>

\* DbConnection::create_replication_slot: nothing is executed when the
\* slot exists.
create_replication_slot(existing, slot_name) ==
    IF existing # <<>> THEN existing
    ELSE <<<<"S", "E", "L", "E", "C", "T", " ", "*", " ", "F", "R", "O", "M", " ", "p", "g",
            "_", "c", "r", "e", "a", "t", "e", "_", "l", "o", "g", "i", "c", "a", "l", "_",
                    "r", "e", "p", "l", "i", "c", "a", "t", "i", "o", "n", "_", "s", "l", "o",
                            "t", "(", "'">> \o slot_name
               \o <<"'", ",", " ", "'", "t", "e", "s", "t", "_", "d", "e", "c", "o", "d", "i",
                       "n", "g", "'", ")">>>>

\* DbConnection::create_publication on the database as create_replication_slot
\* left it: nothing is sent when the publication exists, and the publication
\* exists afterwards when the server accepts the statement.
create_publication(database, pub_name, tables, accepted) ==
    LET sql == IF tables # <<>> /\ tables[1] # <<>>
               THEN <<"C", "R", "E", "A", "T", "E", " ", "P", "U", "B", "L", "I", "C", "A",
                       "T", "I", "O", "N", " ">> \o pub_name \o <<" ", "F", "O", "R", " ",
                               "T", "A", "B", "L", "E", " ">>
                        \o join(tables[1], <<",", " ">>)
               ELSE <<"C", "R", "E", "A", "T", "E", " ", "P", "U", "B", "L", "I", "C", "A",
                       "T", "I", "O", "N", " ">> \o pub_name \o <<" ", "F", "O", "R", " ",
                               "A", "L", "L", " ", "T", "A", "B", "L", "E", "S">>
    IN  IF database.publication # <<>>
        THEN [database EXCEPT !.executed = <<>>]
        ELSE [database EXCEPT !.executed = <<sql>>,
                              !.publication = IF accepted THEN <<sql>> ELSE <<>>]

(***************************************************************************)
(* The records the callers hand to the optimizer and the generator.        *)
(* object_name is a name as extract_table_name returns it: one token, free *)
(* of whitespace, quotes trimmed (a schema-qualified table gives a dotted  *)
(* name).  sql is the statement text, which may hold any chars.            *)
(***************************************************************************)
name_public == <<"p", "u", "b", "l", "i", "c">>

name_app == <<"a", "p", "p">>

name_app_v2 == <<"a", "p", "p", ".", "v", "2">>

name_users == <<"u", "s", "e", "r", "s">>

name_orders == <<"o", "r", "d", "e", "r", "s">>

name_v2_users == <<"v", "2", ".", "u", "s", "e", "r", "s">>

\* A table name holding U+0149, whose uppercase form is one byte longer.
name_wide_grows == <<"<U+0149>">>

\* A table name holding U+0131 twice; each uppercase form is one byte shorter.
name_wide_shrinks == <<"<U+0131>", "c", "<U+0131>">>

name_index == <<"i", "d", "x", "_", "u", "s", "e", "r", "s", "_", "e", "m", "a", "i", "l">>

sql_add_column_email(table) == <<"A", "L", "T", "E", "R", " ", "T", "A", "B", "L", "E",
        " ">> \o table \o <<" ", "A", "D", "D", " ", "C", "O", "L", "U", "M", "N", " ", "e",
                "m", "a", "i", "l", " ", "t", "e", "x", "t">>

sql_add_column_phone(table) == <<"a", "l", "t", "e", "r", " ", "t", "a", "b", "l", "e",
        " ">> \o table \o <<" ", "a", "d", "d", " ", "c", "o", "l", "u", "m", "n", " ", "p",
                "h", "o", "n", "e", " ", "t", "e", "x", "t">>

sql_owner_to(table) == <<"A", "L", "T", "E", "R", " ", "T", "A", "B", "L", "E",
        " ">> \o table \o <<" ", "O", "W", "N", "E", "R", " ", "T", "O", " ", "a", "d", "m",
                "i", "n">>

sql_enable_trigger(table) == <<"a", "l", "t", "e", "r", " ", "t", "a", "b", "l", "e",
        " ">> \o table \o <<"<LF>", "e", "n", "a", "b", "l", "e", " ", "t", "r", "i", "g",
                "g", "e", "r", " ", "a", "l", "l">>

sql_owner_to_two_lines(table) == <<"A", "L", "T", "E", "R", " ", "T", "A", "B", "L", "E",
        " ">> \o table \o <<"<LF>", "O", "W", "N", "E", "R", " ", "T", "O", " ", "a", "d",
                "m", "i", "n">>

sql_add_primary_key(table) ==
    <<"A", "L", "T", "E", "R", " ", "T", "A", "B", "L", "E", " ">> \o table \o <<" ", "A",
            "D", "D", " ", "C", "O", "N", "S", "T", "R", "A", "I", "N", "T", " ", "p", "k",
                    "_", "u", "s", "e", "r", "s", " ", "P", "R", "I", "M", "A", "R", "Y", " ",
                            "K", "E", "Y", " ", "(", "i", "d", ")">>

sql_add_unique(table) ==
    <<"A", "L", "T", "E", "R", " ", "T", "A", "B", "L", "E", " ">> \o table \o <<" ", "A",
            "D", "D", " ", "C", "O", "N", "S", "T", "R", "A", "I", "N", "T", " ", "\"", "u",
                    "k", "_", "e", "m", "a", "i", "l", "\"", " ", "U", "N", "I", "Q", "U",
                            "E", " ", "(", "e", "m", "a", "i", "l", ")">>

sql_add_named_check(table) ==
    <<"a", "l", "t", "e", "r", " ", "t", "a", "b", "l", "e", " ">> \o table \o <<" ", "a",
            "d", "d", " ", "c", "o", "n", "s", "t", "r", "a", "i", "n", "t", " ", "c", "k",
                    "_", "a", "g", "e", " ", "c", "h", "e", "c", "k", " ", "(", "a", "g", "e",
                            " ", ">", " ", "0", ")">>

sql_add_check(table) == <<"A", "L", "T", "E", "R", " ", "T", "A", "B", "L", "E",
        " ">> \o table \o <<" ", "A", "D", "D", " ", "C", "H", "E", "C", "K", " ", "(", "a",
                "g", "e", " ", ">", " ", "0", ")">>

sql_add_check_two_lines(table) == <<"A", "L", "T", "E", "R", " ", "T", "A", "B", "L", "E",
        " ">> \o table \o <<"<LF>", "A", "D", "D", " ", "C", "H", "E", "C", "K", " ", "(",
                "a", "g", "e", " ", ">", " ", "0", ")">>

sql_add_constraint_unfinished(table) == <<"A", "L", "T", "E", "R", " ", "T", "A", "B", "L",
        "E", " ">> \o table \o <<" ", "A", "D", "D", " ", "C", "O", "N", "S", "T", "R", "A",
                "I", "N", "T">>

sql_drop_column(table) == <<"A", "L", "T", "E", "R", " ", "T", "A", "B", "L", "E",
        " ">> \o table \o <<" ", "D", "R", "O", "P", " ", "C", "O", "L", "U", "M", "N", " ",
                "a", "g", "e">>

sql_alter_column(table) == <<"A", "L", "T", "E", "R", " ", "T", "A", "B", "L", "E",
        " ">> \o table \o <<" ", "A", "L", "T", "E", "R", " ", "C", "O", "L", "U", "M", "N",
                " ", "a", "g", "e", " ", "T", "Y", "P", "E", " ", "b", "i", "g", "i", "n", "t">>

sql_drop_constraint(table) == <<"A", "L", "T", "E", "R", " ", "T", "A", "B", "L", "E",
        " ">> \o table \o <<" ", "D", "R", "O", "P", " ", "C", "O", "N", "S", "T", "R", "A",
                "I", "N", "T", " ", "p", "k", "_", "u", "s", "e", "r", "s">>

sql_create_table(table) == <<"C", "R", "E", "A", "T", "E", " ", "T", "A", "B", "L", "E",
        " ">> \o table \o <<" ", "(", "i", "d", " ", "i", "n", "t", ")">>

sql_drop_table(table) == <<"D", "R", "O", "P", " ", "T", "A", "B", "L", "E", " ">> \o table

sql_create_index(index, table) == <<"C", "R", "E", "A", "T", "E", " ", "I", "N", "D", "E",
        "X", " ">> \o index \o <<" ", "O", "N", " ">> \o table \o <<"(", "e", "m", "a", "i",
                "l", ")">>

sql_drop_index(index) == <<"D", "R", "O", "P", " ", "I", "N", "D", "E", "X", " ">> \o index

sql_grant(table) == <<"G", "R", "A", "N", "T", " ", "S", "E", "L", "E", "C", "T", " ", "O",
        "N", " ">> \o table \o <<" ", "T", "O", " ", "b", "o", "b">>

\* What a caller passes to SchemaChange::new.
Input(variant, schema_name, object_name, sql) ==
    [change_type |-> Kind(variant), schema_name |-> schema_name,
     object_name |-> object_name, sql |-> sql]

\* The batches of the optimizer: several objects, among them two whose
\* schema and object names differ and whose "{schema}.{object}" agree.
OptimizerInputs ==
    {Input("AddColumn", name_public, name_users, sql_add_column_email(name_users)),
     Input("AddColumn", name_public, name_users, sql_add_column_phone(name_users)),
     Input("AlterTable", name_public, name_users, sql_owner_to(name_users)),
     Input("AlterTable", name_public, name_users, sql_enable_trigger(name_users)),
     Input("AddConstraint", name_public, name_users, sql_add_primary_key(name_users)),
     Input("AddConstraint", name_public, name_users, sql_add_unique(name_users)),
     Input("DropColumn", name_public, name_users, sql_drop_column(name_users)),
     Input("CreateTable", name_public, name_users, sql_create_table(name_users)),
     Input("AddColumn", name_public, name_orders, sql_add_column_email(name_orders)),
     Input("AlterTable", name_public, name_orders, sql_owner_to(name_orders)),
     Input("AddColumn", name_app, name_users, sql_add_column_email(name_users)),
     Input("AddColumn", name_app_v2, name_users, sql_add_column_email(name_users)),
     Input("AddConstraint", name_app_v2, name_users, sql_add_primary_key(name_users)),
     Input("AddColumn", name_app, name_v2_users, sql_add_column_phone(name_v2_users)),
     Input("AddConstraint", name_app, name_v2_users, sql_add_unique(name_v2_users)),
     Input("AddColumn", name_public, name_wide_grows, sql_add_column_email(name_wide_grows)),
     Input("AddColumn", name_public, name_wide_grows, sql_add_column_phone(name_wide_grows)),
     Input("AddColumn", name_public, name_wide_shrinks,
           sql_add_column_email(name_wide_shrinks))}

\* The longer batches of the optimizer: two objects whose records arrive
\* interleaved, kinds that merge and kinds that do not.
RunInputs ==
    {Input("AddColumn", name_public, name_users, sql_add_column_email(name_users)),
     Input("AddColumn", name_public, name_users, sql_add_column_phone(name_users)),
     Input("DropColumn", name_public, name_users, sql_drop_column(name_users)),
     Input("AddConstraint", name_public, name_users, sql_add_primary_key(name_users)),
     Input("AlterTable", name_public, name_orders, sql_owner_to(name_orders)),
     Input("DropColumn", name_public, name_orders, sql_drop_column(name_orders)),
     Input("AddColumn", name_public, name_wide_shrinks,
           sql_add_column_email(name_wide_shrinks))}

\* The batches of the generator: every kind, and the statement texts that
\* decide the rollback text.
GeneratorInputs ==
    {Input("CreateTable", name_public, name_users, sql_create_table(name_users)),
     Input("DropTable", name_public, name_users, sql_drop_table(name_users)),
     Input("AddColumn", name_public, name_users, sql_add_column_email(name_users)),
     Input("DropColumn", name_public, name_users, sql_drop_column(name_users)),
     Input("ModifyColumn", name_public, name_users, sql_alter_column(name_users)),
     Input("AlterTable", name_public, name_users, sql_owner_to(name_users)),
     Input("AlterTable", name_public, name_users, sql_owner_to_two_lines(name_users)),
     Input("AddConstraint", name_public, name_users, sql_add_primary_key(name_users)),
     Input("AddConstraint", name_public, name_users, sql_add_unique(name_users)),
     Input("AddConstraint", name_public, name_users, sql_add_named_check(name_users)),
     Input("AddConstraint", name_public, name_users, sql_add_check(name_users)),
     Input("AddConstraint", name_public, name_users, sql_add_check_two_lines(name_users)),
     Input("AddConstraint", name_public, name_users,
           sql_add_constraint_unfinished(name_users)),
     Input("AddConstraint", name_public, name_wide_shrinks,
           sql_add_primary_key(name_wide_shrinks)),
     Input("AddConstraint", name_public, name_wide_grows,
           sql_add_constraint_unfinished(name_wide_grows)),
     Input("DropConstraint", name_public, name_users, sql_drop_constraint(name_users)),
     Input("DropConstraint", name_public, name_users,
           sql_drop_constraint(name_users) \o <<"<LF>", "C", "A", "S", "C", "A", "D", "E">>),
     Input("CreateIndex", name_public, name_index, sql_create_index(name_index, name_users)),
     Input("DropIndex", name_public, name_index, sql_drop_index(name_index)),
     [change_type |-> Other(<<"G", "R", "A", "N", "T">>), schema_name |-> name_public,
      object_name |-> <<>>, sql |-> sql_grant(name_users)]}

\* The name generate is given; the caller formats it from the local time.
migration_name == <<"m", "i", "g", "r", "a", "t", "i", "o", "n">>


\* The statements the listener receives as messages: every classification,
\* the keywords in both cases and in both orders, quoted names, statements
\* that end at the anchor keyword, and statements without a token.
ParserInputs ==
    {<<"C", "R", "E", "A", "T", "E", " ", "T", "A", "B", "L", "E", " ", "u", "s", "e", "r",
            "s", " ", "(", "i", "d", " ", "i", "n", "t", ")">>,
     <<"c", "r", "e", "a", "t", "e", " ", "t", "a", "b", "l", "e", " ", "<BACKTICK>", "u",
             "s", "e", "r", "s", "<BACKTICK>", " ", "(", "i", "d", " ", "i", "n", "t", ")">>,
     <<"C", "R", "E", "A", "T", "E", " ", "T", "A", "B", "L", "E", " ", "I", "F", " ", "N",
             "O", "T", " ", "E", "X", "I", "S", "T", "S", " ", "u", "s", "e", "r", "s", " ",
                     "(", "i", "d", " ", "i", "n", "t", ")">>,
     <<"D", "R", "O", "P", " ", "T", "A", "B", "L", "E", " ", "\"", "u", "s", "e", "r", "s", "\"">>,
     <<"D", "R", "O", "P", " ", "T", "A", "B", "L", "E">>,
     <<"C", "R", "E", "A", "T", "E", " ", "T", "A", "B", "L", "E", "S", "P", "A", "C", "E",
             " ", "f", "a", "s", "t", " ", "L", "O", "C", "A", "T", "I", "O", "N", " ", "'",
                     "/", "s", "s", "d", "'">>,
     <<" ", " ", "A", "L", "T", "E", "R", " ", "T", "A", "B", "L", "E", " ", "u", "s", "e",
             "r", "s", " ", "A", "D", "D", " ", "C", "O", "L", "U", "M", "N", " ", "e", "m",
                     "a", "i", "l", " ", "t", "e", "x", "t">>,
     <<"A", "L", "T", "E", "R", " ", "T", "A", "B", "L", "E", " ", "u", "s", "e", "r", "s",
             " ", "D", "R", "O", "P", " ", "C", "O", "L", "U", "M", "N", " ", "a", "g", "e">>,
     <<"A", "L", "T", "E", "R", " ", "T", "A", "B", "L", "E", " ", "u", "s", "e", "r", "s",
             " ", "D", "R", "O", "P", " ", "C", "O", "L", "U", "M", "N", " ", "a", "g", "e",
                     ",", " ", "A", "D", "D", " ", "C", "O", "L", "U", "M", "N", " ", "e",
                             "m", "a", "i", "l", " ", "t", "e", "x", "t">>,
     <<"a", "l", "t", "e", "r", " ", "t", "a", "b", "l", "e", " ", "u", "s", "e", "r", "s",
             " ", "a", "l", "t", "e", "r", " ", "c", "o", "l", "u", "m", "n", " ", "a", "g",
                     "e", " ", "t", "y", "p", "e", " ", "b", "i", "g", "i", "n", "t">>,
     <<"A", "L", "T", "E", "R", " ", "T", "A", "B", "L", "E", " ", "u", "s", "e", "r", "s",
             " ", "A", "L", "T", "E", "R", " ", "C", "O", "L", "U", "M", "N", " ", "a", "g",
                     "e", " ", "D", "R", "O", "P", " ", "D", "E", "F", "A", "U", "L", "T",
                             ",", " ", "D", "R", "O", "P", " ", "C", "O", "L", "U", "M", "N",
                                     " ", "e", "m", "a", "i", "l">>,
     <<"A", "L", "T", "E", "R", " ", "T", "A", "B", "L", "E", " ", "u", "s", "e", "r", "s",
             " ", "A", "D", "D", " ", "C", "O", "N", "S", "T", "R", "A", "I", "N", "T", " ",
                     "p", "k", "_", "u", "s", "e", "r", "s", " ", "P", "R", "I", "M", "A",
                             "R", "Y", " ", "K", "E", "Y", " ", "(", "i", "d", ")">>,
     <<"A", "L", "T", "E", "R", " ", "T", "A", "B", "L", "E", " ", "u", "s", "e", "r", "s",
             " ", "D", "R", "O", "P", " ", "C", "O", "N", "S", "T", "R", "A", "I", "N", "T",
                     " ", "p", "k", "_", "u", "s", "e", "r", "s">>,
     <<"A", "L", "T", "E", "R", " ", "T", "A", "B", "L", "E", " ", "u", "s", "e", "r", "s",
             " ", "D", "R", "O", "P", " ", "C", "O", "N", "S", "T", "R", "A", "I", "N", "T",
                     " ", "p", "k", "_", "u", "s", "e", "r", "s", ",", " ", "A", "D", "D",
                             " ", "C", "O", "N", "S", "T", "R", "A", "I", "N", "T", " ", "p",
                                     "k", " ", "P", "R", "I", "M", "A", "R", "Y", " ", "K",
                                             "E", "Y", " ", "(", "i", "d", ")">>,
     <<"A", "L", "T", "E", "R", " ", "T", "A", "B", "L", "E", " ", "\"", "u", "s", "e", "r",
             "s", "\"", "<LF>", "A", "D", "D", " ", "C", "O", "N", "S", "T", "R", "A", "I",
                     "N", "T", " ", "c", "k", " ", "C", "H", "E", "C", "K", " ", "(", "a",
                             "g", "e", " ", ">", " ", "0", ")", ",", " ", "A", "L", "T", "E",
                                     "R", " ", "C", "O", "L", "U", "M", "N", " ", "a", "g",
                                             "e", " ", "S", "E", "T", " ", "N", "O", "T", " ",
                                                     "N", "U", "L", "L">>,
     <<"A", "L", "T", "E", "R", " ", "T", "A", "B", "L", "E", " ", "u", "s", "e", "r", "s",
             " ", "O", "W", "N", "E", "R", " ", "T", "O", " ", "a", "d", "m", "i", "n">>,
     <<"A", "L", "T", "E", "R", " ", "T", "A", "B", "L", "E">>,
     <<"A", "L", "T", "E", "R", " ", " ", "T", "A", "B", "L", "E", " ", "u", "s", "e", "r",
             "s", " ", "A", "D", "D", " ", "C", "O", "L", "U", "M", "N", " ", "e", "m", "a",
                     "i", "l", " ", "t", "e", "x", "t">>,
     <<"C", "R", "E", "A", "T", "E", " ", "I", "N", "D", "E", "X", " ", "i", "d", "x", "_",
             "u", "s", "e", "r", "s", "_", "e", "m", "a", "i", "l", " ", "O", "N", " ", "u",
                     "s", "e", "r", "s", "(", "e", "m", "a", "i", "l", ")">>,
     <<"c", "r", "e", "a", "t", "e", " ", "i", "n", "d", "e", "x", " ", "\"", "i", "d", "x",
             "_", "u", "s", "e", "r", "s", "_", "e", "m", "a", "i", "l", "\"", " ", "o", "n",
                     " ", "u", "s", "e", "r", "s", "(", "e", "m", "a", "i", "l", ")">>,
     <<"C", "R", "E", "A", "T", "E", " ", "I", "N", "D", "E", "X">>,
     <<"D", "R", "O", "P", " ", "I", "N", "D", "E", "X", " ", "<BACKTICK>", "i", "d", "x",
             "_", "u", "s", "e", "r", "s", "_", "e", "m", "a", "i", "l", "<BACKTICK>">>,
     <<"G", "R", "A", "N", "T", " ", "S", "E", "L", "E", "C", "T", " ", "O", "N", " ", "u",
             "s", "e", "r", "s", " ", "T", "O", " ", "b", "o", "b">>,
     <<"<LF>", "i", "n", "s", "e", "r", "t", " ", "i", "n", "t", "o", " ", "u", "s", "e", "r",
             "s", " ", "v", "a", "l", "u", "e", "s", " ", "(", "1", ")">>,
     <<" ">>,
     <<>>}

\* The messages WalMessageParser::parse is called with.
WalInputs ==
    {<<"L", "S", "N", " ", "0", "/", "1", "2", "3", "4", "5", "6", "7", "8", " ", "C", "R",
            "E", "A", "T", "E", " ", "T", "A", "B", "L", "E", " ", "u", "s", "e", "r", "s">>,
     <<"L", "S", "N", " ", "0", "/", "1", "2", "3", "4", "5", "6", "7", "8", " ", "1", "/",
             "0", " ", "C", "o", "m", "m", "i", "t">>,
     <<"C", "O", "M", "M", "I", "T", " ", "0", "/", "1", "6", "B", "3", "7", "4", "8">>,
     <<"c", "o", "m", "m", "i", "t">>,
     <<"I", "N", "S", "E", "R", "T", " ", "a", "n", "d", "/", "o", "r", " ", "0", "/", "1", "A">>,
     <<"L", "S", "N", " ", "f", "e", "/", " ", "0", "/", "1", "6", "B", "3", "7", "4", "8">>,
     <<"/", "a", "b", " ", "C", "O", "M", "M", "I", "T">>,
     <<"a", "b", "/">>,
     <<"a", "/", " ", "b", "/", "c">>,
     <<"1", "/", "2", "/", "3", " ", "0", "/", "0">>,
     <<"/", "/", "a">>,
     <<"0", "/", "G", "1", " ", "0", "/", "g">>,
     <<"p", "a", "t", "h", " ", "/", "u", "s", "r", "/", "b", "i", "n">>,
     <<>>}

\* The batches generate_migration is called with.
Batches ==
    {<<>>,
     <<SchemaChange_new(Kind("CreateTable"), name_public, name_users,
                        sql_create_table(name_users), 1)>>,
     <<SchemaChange_new(Kind("AddColumn"), name_public, name_users,
                        sql_add_column_email(name_users), 1),
       SchemaChange_new(Kind("AddColumn"), name_public, name_users,
                        sql_add_column_phone(name_users), 2)>>}

\* The --tables arguments of listen: an Option<String>.
TablesArguments ==
    {<<>>,
     <<<<>>>>,
     <<<<"u", "s", "e", "r", "s">>>>,
     <<<<"o", "r", "d", "e", "r", "s">>>>,
     <<<<"p", "u", "b", "l", "i", "c", ".", "u", "s", "e", "r", "s">>>>,
     <<<<"i", "t", "e", "m", "s">>>>,
     <<<<"u", "s", "e", "r", "s", ",", "o", "r", "d", "e", "r", "s">>>>,
     <<<<"o", "r", "d", "e", "r", "s", ",", "u", "s", "e", "r", "s">>>>,
     <<<<" ", "u", "s", "e", "r", "s", " ", ",", " ", "o", "r", "d", "e", "r", "s", " ">>>>,
     <<<<"u", "s", "e", "r", "s", ",", " ", "o", "r", "d", "e", "r", "s", ",", "i", "t", "e",
             "m", "s">>>>}

(***************************************************************************)
(* The state: the batch a caller has collected, and what the calls made on *)
(* it returned.                                                            *)
(***************************************************************************)
MaxBatch == 2

\* The number of ListenerState values that are alive at a time.
MaxHandles == 3

Init ==
    /\ changes = <<>>
    /\ phase = "collect"
    /\ optimized = <<>>
    /\ reoptimized = <<>>
    /\ operations = <<>>
    /\ runs = <<>>
    /\ wal = <<>>
    /\ cells = <<FALSE>>
    /\ handles = <<[paused |-> 1]>>
    /\ clones = <<0>>
    /\ last = [call |-> "new", handle |-> 1, current |-> FALSE]
    /\ threads = <<[pc |-> "idle", handle |-> 1, current |-> FALSE, original |-> FALSE],
                   [pc |-> "idle", handle |-> 1, current |-> FALSE, original |-> FALSE]>>
    /\ clock = 0
    /\ files = {}
    /\ outcome = [paused |-> FALSE, steps |-> <<>>, result |-> "none", written |-> <<>>,
                  replaced |-> FALSE]
    /\ db = [slot |-> <<>>, publication |-> <<>>, tables |-> <<>>, executed |-> <<>>]

\* The caller constructs one more record (SchemaChange::new) for its batch.
Receive(input) ==
    /\ phase = "collect"
    /\ Len(changes) < MaxBatch
    /\ changes' = Append(changes,
                         SchemaChange_new(input.change_type, input.schema_name,
                                          input.object_name, input.sql,
                                          Len(changes) + 1))
    /\ UNCHANGED <<phase, optimized, reoptimized, operations, runs>>
    /\ UNCHANGED <<wal, state_vars, listener_vars>>

\* optimized = MigrationOptimizer::optimize(changes)
Optimize ==
    /\ phase = "collect"
    /\ \E order \in iteration_orders(changes) :
          LET result == optimize(changes, order)
          IN  IF result.panic
              THEN phase' = "panicked" /\ UNCHANGED optimized
              ELSE phase' = "optimized" /\ optimized' = result.out
    /\ UNCHANGED <<changes, reoptimized, operations, runs>>
    /\ UNCHANGED <<wal, state_vars, listener_vars>>

\* reoptimized = MigrationOptimizer::optimize(optimized)
Reoptimize ==
    /\ phase = "optimized"
    /\ \E order \in iteration_orders(optimized) :
          LET result == optimize(optimized, order)
          IN  IF result.panic
              THEN phase' = "panicked" /\ UNCHANGED reoptimized
              ELSE phase' = "reoptimized" /\ reoptimized' = result.out
    /\ UNCHANGED <<changes, optimized, operations, runs>>
    /\ UNCHANGED <<wal, state_vars, listener_vars>>

\* operations = MigrationGenerator::generate(name, changes).operations
Generate ==
    /\ phase = "collect"
    /\ LET result == generate(migration_name, changes)
       IN  IF result.panic
           THEN phase' = "panicked" /\ UNCHANGED operations
           ELSE phase' = "generated" /\ operations' = result.out.operations
    /\ UNCHANGED <<changes, optimized, reoptimized, runs>>
    /\ UNCHANGED <<wal, state_vars, listener_vars>>

\* The core of ReplicationListener::generate_migration, optimize and then
\* generate, run on the batch and then run once more on the same batch.
CorePipeline ==
    /\ phase \in {"collect", "piped"}
    /\ \E order \in iteration_orders(changes) :
          LET optimized_changes == optimize(changes, order)
              migration == IF optimized_changes.panic THEN Panic
                           ELSE generate(migration_name, optimized_changes.out)
          IN  IF migration.panic
              THEN phase' = "panicked" /\ UNCHANGED runs
              ELSE /\ phase' = IF phase = "collect" THEN "piped" ELSE "piped again"
                   /\ runs' = Append(runs, migration.out.operations)
    /\ UNCHANGED <<changes, optimized, reoptimized, operations>>
    /\ UNCHANGED <<wal, state_vars, listener_vars>>

Next ==
    \/ \E input \in OptimizerInputs : Receive(input)
    \/ Optimize
    \/ Reoptimize
    \/ CorePipeline

Spec == Init /\ [][Next]_vars

NextGen ==
    \/ \E input \in GeneratorInputs : Receive(input)
    \/ Generate

SpecGen == Init /\ [][NextGen]_vars

\* The length of the batches whose groups hold several runs.
MaxRun == 3

\* The caller constructs one more record for a batch of up to MaxRun records.
Collect(input) ==
    /\ phase = "collect"
    /\ Len(changes) < MaxRun
    /\ changes' = Append(changes,
                         SchemaChange_new(input.change_type, input.schema_name,
                                          input.object_name, input.sql,
                                          Len(changes) + 1))
    /\ UNCHANGED <<phase, optimized, reoptimized, operations, runs>>
    /\ UNCHANGED <<wal, state_vars, listener_vars>>

NextRuns ==
    \/ \E input \in RunInputs : Collect(input)
    \/ Optimize

SpecRuns == Init /\ [][NextRuns]_vars

\* ReplicationListener::process_message: the message is classified and the
\* record is built in schema "public".
ProcessMessage(message) ==
    /\ phase = "collect"
    /\ Len(changes) < MaxBatch
    /\ changes' = IF parse(message) = <<>> THEN changes
                  ELSE Append(changes,
                              SchemaChange_new(parse(message)[1].change_type, name_public,
                                               parse(message)[1].object_name, message,
                                               Len(changes) + 1))
    /\ UNCHANGED <<phase, optimized, reoptimized, operations, runs>>
    /\ UNCHANGED <<wal, state_vars, listener_vars>>

NextParse == \E message \in ParserInputs : ProcessMessage(message)

SpecParse == Init /\ [][NextParse]_vars

\* One message goes through WalMessageParser::parse, the clock reading some
\* millisecond of the current second.
ParseWal(message, millis) ==
    /\ Len(wal) < MaxBatch
    /\ wal' = Append(wal, WalMessageParser_parse(message, 1000 * clock + millis))
    /\ UNCHANGED <<core_vars, state_vars, listener_vars>>

NextWal == \E message \in WalInputs, millis \in {0, 999} : ParseWal(message, millis)

SpecWal == Init /\ [][NextWal]_vars

\* ListenerState::new
New ==
    /\ Len(handles) < MaxHandles
    /\ cells' = Append(cells, FALSE)
    /\ handles' = Append(handles, [paused |-> Len(cells) + 1])
    /\ clones' = Append(clones, 0)
    /\ last' = [call |-> "new", handle |-> Len(handles) + 1, current |-> FALSE]
    /\ UNCHANGED <<threads, core_vars, wal, listener_vars>>

\* Clone that allocates a flag of its own, with the value of the original.
CloneDetached(h) ==
    /\ Len(handles) < MaxHandles
    /\ cells' = Append(cells, is_paused(h))
    /\ handles' = Append(handles, [paused |-> Len(cells) + 1])
    /\ clones' = Append(clones, h)
    /\ last' = [call |-> "clone", handle |-> Len(handles) + 1, current |-> is_paused(h)]
    /\ UNCHANGED <<threads, core_vars, wal, listener_vars>>

\* ListenerState::clone, derived: the Arc is cloned, not the AtomicBool.
Clone(h) ==
    /\ Len(handles) < MaxHandles
    /\ handles' = Append(handles, handles[h])
    /\ clones' = Append(clones, h)
    /\ last' = [call |-> "clone", handle |-> Len(handles) + 1, current |-> is_paused(h)]
    /\ UNCHANGED <<cells, threads, core_vars, wal, listener_vars>>

\* ListenerState::pause
Pause(h) ==
    /\ cells' = [cells EXCEPT ![handles[h].paused] = TRUE]
    /\ last' = [call |-> "pause", handle |-> h, current |-> is_paused(h)]
    /\ UNCHANGED <<handles, clones, threads, core_vars, wal, listener_vars>>

\* ListenerState::continue_listening
ContinueListening(h) ==
    /\ cells' = [cells EXCEPT ![handles[h].paused] = FALSE]
    /\ last' = [call |-> "continue_listening", handle |-> h, current |-> is_paused(h)]
    /\ UNCHANGED <<handles, clones, threads, core_vars, wal, listener_vars>>

\* toggle that pauses whatever the flag holds.
ToggleWithoutLoad(h) ==
    /\ cells' = [cells EXCEPT ![handles[h].paused] = TRUE]
    /\ last' = [call |-> "toggle", handle |-> h, current |-> is_paused(h)]
    /\ UNCHANGED <<handles, clones, threads, core_vars, wal, listener_vars>>

\* ListenerState::toggle, run with no other call in between.
Toggle(h) ==
    /\ cells' = IF is_paused(h)
                THEN [cells EXCEPT ![handles[h].paused] = FALSE]
                ELSE [cells EXCEPT ![handles[h].paused] = TRUE]
    /\ last' = [call |-> "toggle", handle |-> h, current |-> is_paused(h)]
    /\ UNCHANGED <<handles, clones, threads, core_vars, wal, listener_vars>>

NextState ==
    \/ New
    \/ \E h \in DOMAIN handles : Clone(h)
    \/ \E h \in DOMAIN handles : Pause(h)
    \/ \E h \in DOMAIN handles : ContinueListening(h)
    \/ \E h \in DOMAIN handles : Toggle(h)

SpecState == Init /\ [][NextState]_vars

\* No thread is inside toggle.
all_idle == \A t \in DOMAIN threads : threads[t].pc = "idle"

\* Thread t calls toggle on ListenerState h and runs its first statement,
\* "let current = self.is_paused()".  original is the flag before the
\* first of the toggles on this flag.
ToggleLoad(t, h) ==
    /\ threads[t].pc = "idle"
    /\ threads' = [threads EXCEPT ![t] =
          [pc |-> "loaded", handle |-> h, current |-> is_paused(h),
           original |->
               IF \E u \in DOMAIN threads :
                      /\ threads[u].pc # "idle"
                      /\ handles[threads[u].handle].paused = handles[h].paused
               THEN threads[CHOOSE u \in DOMAIN threads :
                                /\ threads[u].pc # "idle"
                                /\ handles[threads[u].handle].paused = handles[h].paused
                           ].original
               ELSE is_paused(h)]]
    /\ UNCHANGED <<cells, handles, clones, last, core_vars, wal, listener_vars>>

\* Thread t runs the rest of toggle: continue_listening() when it loaded
\* true, pause() when it loaded false.
ToggleStore(t) ==
    /\ threads[t].pc = "loaded"
    /\ cells' = IF threads[t].current
                THEN [cells EXCEPT ![handles[threads[t].handle].paused] = FALSE]
                ELSE [cells EXCEPT ![handles[threads[t].handle].paused] = TRUE]
    /\ threads' = [threads EXCEPT ![t].pc = "done"]
    /\ UNCHANGED <<handles, clones, last, core_vars, wal, listener_vars>>

\* Two threads hold clones of ListenerState values and each calls toggle
\* once; the flags are set up before the first of them calls.
NextToggle ==
    \/ New
    \/ \E h \in DOMAIN handles : Clone(h)
    \/ \E h \in DOMAIN handles : all_idle /\ Pause(h)
    \/ \E t \in DOMAIN threads, h \in DOMAIN handles : ToggleLoad(t, h)
    \/ \E t \in DOMAIN threads : ToggleStore(t)

SpecToggle == Init /\ [][NextToggle]_vars

\* Half a second passes.
Tick ==
    /\ clock < MaxClock
    /\ clock' = clock + 1
    /\ UNCHANGED <<core_vars, wal, state_vars, files, outcome, db>>

\* generate_migration that does not ask whether the listener is paused.
GenerateMigrationWhilePaused(batch) ==
    /\ generate_unpaused(batch)
    /\ UNCHANGED <<core_vars, wal, state_vars, db>>

\* ReplicationListener::generate_migration
GenerateMigration(batch) ==
    /\ IF is_paused(1)
       THEN /\ outcome' = Outcome(<<>>, "Ok", <<>>, FALSE)
            /\ UNCHANGED <<files, clock>>
       ELSE generate_unpaused(batch)
    /\ UNCHANGED <<core_vars, wal, state_vars, db>>

\* ReplicationListener::pause and continue_listening call pause and
\* continue_listening on the ListenerState the listener holds.
NextListener ==
    \/ Pause(1)
    \/ ContinueListening(1)
    \/ Tick
    \/ \E batch \in Batches : GenerateMigration(batch)

SpecListener == Init /\ [][NextListener]_vars

\* ReplicationListener::listen up to its loop, which changes nothing: the
\* slot and the publication, under the names the command line gives them by
\* default, are created in the database, which outlives the listener.
Listen(tables, accepted) ==
    /\ db' = [create_publication([db EXCEPT !.slot = create_replication_slot(@, <<"r", "e",
            "p", "l", "i", "g", "r", "a", "t", "e", "_", "s", "l", "o", "t">>)],
                                 <<"r", "e", "p", "l", "i", "g", "r", "a", "t", "e", "_", "p",
                                         "u", "b">>, table_list(tables), accepted)
                  EXCEPT !.tables = <<tables>>]
    /\ UNCHANGED <<core_vars, wal, state_vars, clock, files, outcome>>

\* ReplicationListener::cleanup: dropping a slot that does not exist is an
\* error, which leaves the publication in place.
Cleanup ==
    /\ db' = IF db.slot = <<>> THEN db
             ELSE [db EXCEPT !.slot = <<>>, !.publication = <<>>]
    /\ UNCHANGED <<core_vars, wal, state_vars, clock, files, outcome>>

NextPublication ==
    \/ \E tables \in TablesArguments, accepted \in BOOLEAN : Listen(tables, accepted)
    \/ Cleanup

SpecPublication == Init /\ [][NextPublication]_vars

(***************************************************************************)
(* What the claims speak of.  Positions here are CHAR positions of the     *)
(* text itself, found without regard to case, so that they say what the    *)
(* statement holds and not how the code looks for it.                      *)
(***************************************************************************)
\* The text with its ASCII letters uppercased, char for char.
folded(text) ==
    [k \in DOMAIN text |->
        IF text[k] \in DOMAIN ascii_uppercase THEN ascii_uppercase[text[k]] ELSE text[k]]

\* The position of the keyword in the statement, 0 when it holds none.
keyword_position(sql, keyword) == match_from(folded(sql), keyword, 1)

\* The statement from the keyword to its end.
text_from_keyword(sql, keyword) == SubSeq(sql, keyword_position(sql, keyword), Len(sql))

\* The positions at which the lines of a text start.
line_starts(text) == {1} \cup {k + 1 : k \in {p \in DOMAIN text : text[p] = "<LF>"}}

\* The line that starts at position k is blank or opens with "--".
comment_line_at(text, k) ==
    LET rest == trim_start_matches(SubSeq(text, k, Len(text)), {" "})
    IN  \/ rest = <<>>
        \/ Head(rest) = "<LF>"
        \/ SubSeq(rest, 1, 2) = <<"-", "-">>

\* An inert comment: the text opens with "--" and every one of its lines is
\* comment text, so that no part of it is executed.
is_inert_comment(text) ==
    /\ SubSeq(text, 1, 2) = <<"-", "-">>
    /\ \A k \in line_starts(text) : comment_line_at(text, k)

same_object(a, b) == a.schema_name = b.schema_name /\ a.object_name = b.object_name

\* The windows of input records from which optimize builds its output
\* records, one window for each output record.
merged_from(batch) ==
    UNION {{table_runs(pending_changes(batch, key), 1)[k] :
                k \in DOMAIN table_runs(pending_changes(batch, key), 1)} :
           key \in group_keys(batch)}

(***************************************************************************)
(* The claims on MigrationOptimizer (specification Spec).                  *)
(***************************************************************************)
\* C1: optimize(optimize(x)) equals optimize(x) as an ordered sequence (the
\* same records with the same sql in the same order), whatever order the
\* groups are iterated in.
C1_OptimizeIdempotent == phase = "reoptimized" => reoptimized = optimized

\* C2: the output of optimize never has more records than its input, and is
\* empty when the input is empty; this holds of optimize(x) and of
\* optimize(optimize(x)) alike.
C2_OutputNotLonger ==
    /\ phase \in {"optimized", "reoptimized"} =>
          /\ Len(optimized) <= Len(changes)
          /\ changes = <<>> => optimized = <<>>
    /\ phase = "reoptimized" => Len(reoptimized) <= Len(optimized)

\* C2, witness: optimize has returned fewer records than it was given.
C2_Witness ==
    /\ phase = "optimized"
    /\ Len(changes) = MaxBatch
    /\ Len(optimized) < Len(changes)

\* C3: optimize never merges two records that concern different objects:
\* every output record is built only from input records with one
\* schema_name and one object_name.
C3_DifferentObjectsNeverMerged ==
    phase = "optimized" =>
        \A window \in merged_from(changes) :
            \A a, b \in DOMAIN window : same_object(window[a], window[b])

\* The output records whose sql holds the given text.
records_holding(batch, text) ==
    {j \in DOMAIN batch : contains(batch[j].details.sql, text)}

\* C4: for two AddColumn records on the same object that are adjacent in the
\* input, optimize returns exactly one record, and its sql holds the column
\* clauses of both, joined by a comma.
C4_AdjacentAddColumnsMerged ==
    phase = "optimized" =>
        \A i \in 1..(Len(changes) - 1) :
            ( /\ changes[i].change_type = Kind("AddColumn")
              /\ changes[i + 1].change_type = Kind("AddColumn")
              /\ same_object(changes[i], changes[i + 1])
              /\ keyword_position(changes[i].details.sql, str_ADD_COLUMN) # 0
              /\ keyword_position(changes[i + 1].details.sql, str_ADD_COLUMN) # 0 )
            => Cardinality(records_holding(optimized,
                    text_from_keyword(changes[i].details.sql, str_ADD_COLUMN)
                        \o <<",", " ">>
                        \o text_from_keyword(changes[i + 1].details.sql, str_ADD_COLUMN))) = 1

\* C5: the core pipeline (optimize, then generate) run twice on one input
\* gives the same operations list, element for element and in order.
C5_PipelineDeterministic == phase = "piped again" => runs[1] = runs[2]

(***************************************************************************)
(* The claims on MigrationGenerator (specification SpecGen).               *)
(***************************************************************************)
\* The operation tells of the record: its table, name or up text is the
\* record's own.
describes(operation, change) ==
    \/ operation = <<>>
    \/ /\ Len(operation) = 1
       /\ CASE operation[1].key = "raw_sql" -> operation[1].value.up = change.details.sql
            [] operation[1].key \in {"create_table", "drop_table"} ->
                    operation[1].value.name = change.object_name
            [] operation[1].key \in {"add_column", "drop_column"} ->
                    operation[1].value.table = change.object_name
            [] OTHER -> FALSE

\* C6: generate returns a migration whose operations list has exactly one
\* entry for each input record, in input order: operations[i] is the
\* descriptor of changes[i], for every kind, Other and ModifyColumn among
\* them.
C6_OneOperationPerRecord ==
    phase = "generated" =>
        /\ Len(operations) = Len(changes)
        /\ \A i \in DOMAIN changes :
              /\ operations[i] = schema_change_to_operation(changes[i]).out
              /\ describes(operations[i], changes[i])

\* C6, witness: generate has returned for a batch that opens with a record of
\* an unsupported kind and ends with a CreateIndex record.
C6_Witness ==
    /\ phase = "generated"
    /\ Len(changes) >= 2
    /\ changes[1].change_type.variant \in {"Other", "ModifyColumn"}
    /\ changes[Len(changes)].change_type = Kind("CreateIndex")
    /\ operations[1] = <<>>
    /\ operations[Len(changes)] # <<>>

\* The whitespace-delimited token that follows the keyword CONSTRAINT, its
\* surrounding double quotes and backticks stripped.
named_constraint(sql) ==
    LET after == trim(SubSeq(sql, keyword_position(sql, str_CONSTRAINT) + 10, Len(sql)))
        stop  == whitespace_from(after, 1)
    IN  trim_quotes(IF stop = 0 THEN after ELSE SubSeq(after, 1, stop - 1))

\* C7: for an AddConstraint record the operation is raw_sql, up is the
\* record's sql, and down is "ALTER TABLE <object_name> DROP CONSTRAINT IF
\* EXISTS <name>" with <name> the token that follows the keyword CONSTRAINT,
\* quotes stripped; when the sql holds no keyword CONSTRAINT, down is an
\* inert comment.
C7_AddConstraintRollback ==
    phase = "generated" =>
        \A i \in DOMAIN changes :
            changes[i].change_type = Kind("AddConstraint") =>
                /\ Len(operations[i]) = 1
                /\ operations[i][1].key = "raw_sql"
                /\ operations[i][1].value.up = changes[i].details.sql
                /\ IF keyword_position(changes[i].details.sql, str_CONSTRAINT) # 0
                   THEN operations[i][1].value.down =
                            <<"A", "L", "T", "E", "R", " ", "T", "A", "B", "L", "E",
                                    " ">> \o changes[i].object_name
                                \o <<" ", "D", "R", "O", "P", " ", "C", "O", "N", "S", "T",
                                        "R", "A", "I", "N", "T", " ", "I", "F", " ", "E", "X",
                                                "I", "S", "T", "S", " ">>
                                \o named_constraint(changes[i].details.sql)
                   ELSE is_inert_comment(operations[i][1].value.down)

\* C8: for every DropConstraint record the down text is an inert comment:
\* the whole of it is comment text, whatever the object name and the sql.
C8_DropConstraintRollbackInert ==
    phase = "generated" =>
        \A i \in DOMAIN changes :
            changes[i].change_type = Kind("DropConstraint") =>
                /\ Len(operations[i]) = 1
                /\ operations[i][1].key = "raw_sql"
                /\ is_inert_comment(operations[i][1].value.down)

\* C8, witness: generate has returned for a DropConstraint record whose sql
\* spans two lines.
C8_Witness ==
    /\ phase = "generated"
    /\ \E i \in DOMAIN changes :
          /\ changes[i].change_type = Kind("DropConstraint")
          /\ contains(changes[i].details.sql, <<"<LF>">>)
          /\ operations[i] # <<>>

\* C9: for every AlterTable record the operation is raw_sql, up is the
\* record's sql, and down is an inert comment that names the statement: no
\* part of down is executable, also when the sql spans several lines.
C9_AlterTableRollbackInert ==
    phase = "generated" =>
        \A i \in DOMAIN changes :
            changes[i].change_type = Kind("AlterTable") =>
                /\ Len(operations[i]) = 1
                /\ operations[i][1].key = "raw_sql"
                /\ operations[i][1].value.up = changes[i].details.sql
                /\ contains(operations[i][1].value.down, changes[i].details.sql)
                /\ is_inert_comment(operations[i][1].value.down)

OperationFamilies == {"create_table", "drop_table", "add_column", "drop_column", "raw_sql"}

single_key(operation) == Len(operation) = 1 /\ operation[1].key \in OperationFamilies

\* C10: every operation descriptor has exactly one key, one of create_table,
\* drop_table, add_column, drop_column, raw_sql, but for the records of kind
\* Other, which alone give the empty descriptor; each of the ten named kinds
\* gives a single-key descriptor.
C10_OnlyOtherIsEmpty ==
    phase = "generated" =>
        \A i \in DOMAIN changes :
            IF changes[i].change_type.variant = "Other"
            THEN operations[i] = <<>>
            ELSE single_key(operations[i])

\* C10, amended: the records of kind Other and of kind ModifyColumn give the
\* empty descriptor; each of the other nine named kinds gives a descriptor
\* with exactly one key, one of the five families.
C10_UnsupportedKindsAreEmpty ==
    phase = "generated" =>
        \A i \in DOMAIN changes :
            IF changes[i].change_type.variant \in {"Other", "ModifyColumn"}
            THEN operations[i] = <<>>
            ELSE /\ changes[i].change_type.variant \in NamedKinds
                 /\ single_key(operations[i])

\* C10, witness: generate has returned the empty descriptor for a
\* ModifyColumn record and a single-key descriptor for a DropIndex record.
C10_Witness ==
    /\ phase = "generated"
    /\ \E i, j \in DOMAIN changes :
          /\ changes[i].change_type = Kind("ModifyColumn")
          /\ operations[i] = <<>>
          /\ changes[j].change_type = Kind("DropIndex")
          /\ single_key(operations[j])

\* The text is "ALTER TABLE <table> DROP CONSTRAINT IF EXISTS <name>" with a
\* name of at least one char.
drops_named_constraint(text, table) ==
    LET statement == <<"A", "L", "T", "E", "R", " ", "T", "A", "B", "L", "E",
            " ">> \o table \o <<" ", "D", "R", "O", "P", " ", "C", "O", "N", "S", "T", "R",
                    "A", "I", "N", "T", " ", "I", "F", " ", "E", "X", "I", "S", "T", "S", " ">>
    IN  /\ Len(text) > Len(statement)
        /\ SubSeq(text, 1, Len(statement)) = statement

\* C27: the down text generated for an AddConstraint record is an inert
\* comment or the complete statement "ALTER TABLE <object_name> DROP
\* CONSTRAINT IF EXISTS <name>" with a non-empty name, also when the keyword
\* CONSTRAINT is the last thing in the sql.
C27_RollbackNamesConstraint ==
    phase = "generated" =>
        \A i \in DOMAIN changes :
            changes[i].change_type = Kind("AddConstraint") =>
                /\ Len(operations[i]) = 1
                /\ \/ is_inert_comment(operations[i][1].value.down)
                   \/ drops_named_constraint(operations[i][1].value.down,
                                             changes[i].object_name)

(***************************************************************************)
(* The claims on SchemaChangeParser (specification SpecParse).  A token is *)
(* a maximal stretch of chars that are not whitespace.                     *)
(***************************************************************************)
\* The least member of a set of positions, 0 for the empty set.
first_of(positions) ==
    IF positions = {} THEN 0 ELSE CHOOSE k \in positions : \A j \in positions : k <= j

\* The positions at which the tokens of a text start.
token_starts(text) ==
    {k \in DOMAIN text :
        ~is_whitespace(text[k]) /\ (k = 1 \/ is_whitespace(text[k - 1]))}

\* The token that starts at position k.
token_at(text, k) ==
    SubSeq(text, k,
           first_of({e \in k..Len(text) : e = Len(text) \/ is_whitespace(text[e + 1])}))

\* The token without the double quotes and backticks around it.
unquoted(token) ==
    LET inner == {k \in DOMAIN token : token[k] \notin {"\"", "<BACKTICK>"}}
    IN  IF inner = {} THEN <<>>
        ELSE SubSeq(token, first_of(inner), CHOOSE k \in inner : \A j \in inner : j <= k)

\* The positions of the tokens that read as the keyword, whatever the case.
keyword_tokens(text, keyword) ==
    {k \in token_starts(text) : folded(token_at(text, k)) = keyword}

\* The token that follows the first keyword token, unquoted; the empty
\* string when the keyword token is the last token.
name_following(text, keyword) ==
    LET keyword_at == first_of(keyword_tokens(text, keyword))
        later == {k \in token_starts(text) : k > keyword_at}
    IN  IF later = {} THEN <<>> ELSE unquoted(token_at(text, first_of(later)))

\* The first token of the text, "" when it has none.
first_token(text) ==
    IF token_starts(text) = {} THEN <<>> ELSE token_at(text, first_of(token_starts(text)))

\* The statement opens with the words, leading whitespace and case aside.
opens_with(sql, words) == starts_with(folded(trim(sql)), words)

\* The kind of an ALTER TABLE statement by the first keyword, in priority
\* order, that occurs in it.
alter_kind(sql) ==
    LET text == folded(sql)
    IN  IF match_from(text, <<"A", "D", "D", " ", "C", "O", "L", "U", "M",
            "N">>, 1) # 0 THEN "AddColumn"
        ELSE IF match_from(text, <<"D", "R", "O", "P", " ", "C", "O", "L", "U", "M",
                "N">>, 1) # 0 THEN "DropColumn"
        ELSE IF match_from(text, <<"A", "L", "T", "E", "R", " ", "C", "O", "L", "U", "M",
                "N">>, 1) # 0 THEN "ModifyColumn"
        ELSE IF match_from(text, <<"A", "D", "D", " ", "C", "O", "N", "S", "T", "R", "A", "I",
                "N", "T">>, 1) # 0 THEN "AddConstraint"
        ELSE IF match_from(text, <<"D", "R", "O", "P", " ", "C", "O", "N", "S", "T", "R", "A",
                "I", "N", "T">>, 1) # 0 THEN "DropConstraint"
        ELSE "AlterTable"

\* C11: for every statement that starts with ALTER TABLE (trimmed, whatever
\* the case), parse returns the kind of the first keyword, in the priority
\* order ADD COLUMN, DROP COLUMN, ALTER COLUMN, ADD CONSTRAINT, DROP
\* CONSTRAINT, that occurs anywhere in the statement, and AlterTable when
\* none occurs; the object name is the token that follows TABLE.
C11_AlterTableKinds ==
    \A i \in DOMAIN changes :
        opens_with(changes[i].details.sql, str_ALTER_TABLE) =>
            /\ changes[i].change_type = Kind(alter_kind(changes[i].details.sql))
            /\ changes[i].object_name = name_following(changes[i].details.sql, <<"T", "A",
                    "B", "L", "E">>)

\* C11, witness: a statement that holds DROP COLUMN before ADD COLUMN has
\* been classified as AddColumn, and one with no keyword as AlterTable.
C11_Witness ==
    \E i, j \in DOMAIN changes :
        /\ changes[i].change_type = Kind("AddColumn")
        /\ keyword_position(changes[i].details.sql, <<"D", "R", "O", "P", " ", "C", "O", "L",
                "U", "M", "N">>) # 0
        /\ keyword_position(changes[i].details.sql, <<"D", "R", "O", "P", " ", "C", "O", "L",
                "U", "M", "N">>)
               < keyword_position(changes[i].details.sql, <<"A", "D", "D", " ", "C", "O", "L",
                       "U", "M", "N">>)
        /\ changes[j].change_type = Kind("AlterTable")
        /\ changes[j].object_name # <<>>

\* The statement opens with one of the five prefixes parse knows.
opens_with_known(sql) ==
    LET text == folded(trim(sql))
    IN  \E words \in {<<"C", "R", "E", "A", "T", "E", " ", "T", "A", "B", "L", "E">>, <<"D",
            "R", "O", "P", " ", "T", "A", "B", "L", "E">>, str_ALTER_TABLE,
                      <<"C", "R", "E", "A", "T", "E", " ", "I", "N", "D", "E", "X">>, <<"D",
                              "R", "O", "P", " ", "I", "N", "D", "E",
                                      "X">>} : starts_with(text, words)

\* parse returns Some(..) for every statement.  parse is a function of the
\* statement alone, so this is looked at once, before the first message.
never_fails == changes = <<>> => \A message \in ParserInputs : parse(message) # <<>>

\* C12 as stated: parse never fails, and for every statement that opens
\* with none of the five prefixes it returns Other(t), t being the first
\* whitespace token of the statement uppercased, with an empty object name.
C12_OtherIsFirstToken ==
    /\ never_fails
    /\ \A i \in DOMAIN changes :
          ~opens_with_known(changes[i].details.sql) =>
              /\ changes[i].change_type = Other(to_uppercase(first_token(changes[i].details.sql)))
              /\ changes[i].object_name = <<>>

\* C12, amended: parse never fails, and for every statement that opens
\* with none of the five prefixes it returns an empty object name and
\* Other(t), t being the first whitespace token of the statement uppercased
\* when it has a token and UNKNOWN when it has none.
C12_OtherIsFirstTokenOrUnknown ==
    /\ never_fails
    /\ \A i \in DOMAIN changes :
          ~opens_with_known(changes[i].details.sql) =>
              /\ changes[i].change_type =
                     Other(IF token_starts(changes[i].details.sql) = {} THEN <<"U", "N", "K",
                             "N", "O", "W", "N">>
                           ELSE to_uppercase(first_token(changes[i].details.sql)))
              /\ changes[i].object_name = <<>>

\* C12, witness: a statement of blanks only and a statement in lower case
\* that opens with a line feed have both been classified.
C12_Witness ==
    \E i, j \in DOMAIN changes :
        /\ changes[i].details.sql # <<>>
        /\ token_starts(changes[i].details.sql) = {}
        /\ changes[i].change_type = Other(<<"U", "N", "K", "N", "O", "W", "N">>)
        /\ changes[j].change_type = Other(<<"I", "N", "S", "E", "R", "T">>)
        /\ changes[j].details.sql[1] = "<LF>"

\* The record was classified with TABLE as its anchor keyword.
table_anchored(change) ==
    change.change_type \in {Kind(k) : k \in {"CreateTable", "DropTable", "AlterTable",
                                              "AddColumn", "DropColumn", "ModifyColumn",
                                              "AddConstraint", "DropConstraint"}}

\* The record was classified with INDEX as its anchor keyword.
index_anchored(change) ==
    change.change_type \in {Kind("CreateIndex"), Kind("DropIndex")}

\* C13: the object name of a record classified as CreateTable, DropTable or
\* one of the ALTER TABLE kinds, whose statement has a token TABLE, is the
\* token that immediately follows that token, and that of a CreateIndex or
\* DropIndex record, whose statement has a token INDEX, the token that
\* immediately follows that one, in both cases without the backticks and
\* double quotes around it; it is empty when the anchor is the last token.
C13_NameFollowsAnchor ==
    \A i \in DOMAIN changes :
        /\ table_anchored(changes[i]) /\ keyword_tokens(changes[i].details.sql, <<"T", "A",
                "B", "L", "E">>) # {} =>
              changes[i].object_name = name_following(changes[i].details.sql, <<"T", "A", "B",
                      "L", "E">>)
        /\ index_anchored(changes[i]) /\ keyword_tokens(changes[i].details.sql, <<"I", "N",
                "D", "E", "X">>) # {} =>
              changes[i].object_name = name_following(changes[i].details.sql, <<"I", "N", "D",
                      "E", "X">>)

\* C13, witness: a quoted index name has been stripped of its quotes, a
\* backticked table name of its backticks, and a statement that ends with
\* its anchor has an empty name.
C13_Witness ==
    \E i, j \in DOMAIN changes :
        /\ index_anchored(changes[i])
        /\ changes[i].object_name = <<"i", "d", "x", "_", "u", "s", "e", "r", "s", "_", "e",
                "m", "a", "i", "l">>
        /\ \E k \in DOMAIN changes[i].details.sql :
              changes[i].details.sql[k] \in {"\"", "<BACKTICK>"}
        /\ table_anchored(changes[j])
        /\ keyword_tokens(changes[j].details.sql, <<"T", "A", "B", "L", "E">>) # {}
        /\ changes[j].object_name = <<>>

(***************************************************************************)
(* The claim on WalMessageParser (specification SpecWal).                  *)
(***************************************************************************)
\* The token reads <hex>/<hex>: hexadecimal digits, one slash, hexadecimal
\* digits.
hex_slash_hex(token) ==
    \E k \in 2..(Len(token) - 1) :
        /\ token[k] = "/"
        /\ \A j \in DOMAIN token : j # k => is_ascii_hexdigit(token[j])

\* The first token of the message that reads <hex>/<hex>, "0/0" when no
\* token does.
first_hex_slash_hex(message) ==
    LET matching == {k \in token_starts(message) : hex_slash_hex(token_at(message, k))}
    IN  IF matching = {} THEN <<"0", "/", "0">> ELSE token_at(message, first_of(matching))

\* C14: every call of WalMessageParser::parse returns Ok(Some(message)),
\* and the lsn of the message is the first whitespace token, from the left,
\* that reads <hex>/<hex>, and "0/0" when no token does.
C14_LsnIsFirstHexSlashHex ==
    \A i \in DOMAIN wal :
        /\ ~wal[i].panic
        /\ wal[i].out # <<>>
        /\ wal[i].out[1].lsn = first_hex_slash_hex(wal[i].out[1].content)

(***************************************************************************)
(* The claims on ListenerState (specification SpecState).  last holds the  *)
(* most recent call, the value it was made on, and what is_paused returned *)
(* just before it.                                                         *)
(***************************************************************************)
\* The flag of the reference machine after a call, current being its flag
\* before the call: a new machine is unpaused, pause gives true,
\* continue_listening false, toggle the negation, and a clone what the
\* original holds.
reference_after(call, current) ==
    CASE call = "new" -> FALSE
      [] call = "pause" -> TRUE
      [] call = "continue_listening" -> FALSE
      [] call = "toggle" -> ~current
      [] OTHER -> current

\* C16: a ListenerState starts unpaused, after every call of pause,
\* continue_listening or toggle is_paused() returns what the reference
\* machine holds, and status() returns "PAUSED" exactly when is_paused()
\* is true and "LISTENING" otherwise.
C16_FlagFollowsReference ==
    /\ is_paused(last.handle) = reference_after(last.call, last.current)
    /\ \A h \in DOMAIN handles :
          /\ status(h) = <<"P", "A", "U", "S", "E", "D">> <=> is_paused(h)
          /\ status(h) = <<"L", "I", "S", "T", "E", "N", "I", "N", "G">> <=> ~is_paused(h)

\* C16, witness: toggle has been called on a paused ListenerState, which
\* now reports LISTENING.
C16_Witness ==
    /\ last.call = "toggle"
    /\ last.current
    /\ status(last.handle) = <<"L", "I", "S", "T", "E", "N", "I", "N", "G">>

\* The ListenerState that h is a clone of, through any number of clones.
RECURSIVE original(_)
original(h) == IF clones[h] = 0 THEN h ELSE original(clones[h])

\* The clones of one ListenerState agree, on the value the last call set
\* when it was made on one of them.
clones_agree ==
    \A h1, h2 \in DOMAIN handles :
        original(h1) = original(h2) =>
            /\ is_paused(h1) = is_paused(h2)
            /\ h1 = last.handle =>
                  is_paused(h2) = reference_after(last.call, last.current)

\* A call leaves alone what the ListenerStates that are no clones of the
\* one it is made on report.
others_keep ==
    \A h \in DOMAIN handles :
        (original(h) # original(last.handle))' => is_paused(h)' = is_paused(h)

\* C17: all clones of a ListenerState share one flag: is_paused() returns
\* the same value on every clone, which is the value set by the most recent
\* call of pause, continue_listening or toggle on any of them.
C17_ClonesShareFlag == []clones_agree /\ [][others_keep]_vars

\* C17, witness: pause has been called on a clone, the original reports
\* paused, and a ListenerState made by new() does not.
C17_Witness ==
    /\ last.call = "pause"
    /\ clones[last.handle] # 0
    /\ is_paused(original(last.handle))
    /\ \E h \in DOMAIN handles : original(h) # original(last.handle) /\ ~is_paused(h)

(***************************************************************************)
(* Two threads in toggle (specification SpecToggle).                       *)
(***************************************************************************)
\* Threads t and u have both returned from toggle, called on values that
\* share one flag.
both_toggled(t, u) ==
    /\ t # u
    /\ threads[t].pc = "done"
    /\ threads[u].pc = "done"
    /\ handles[threads[t].handle].paused = handles[threads[u].handle].paused

\* C25: when two threads each call toggle once, concurrently, on clones of
\* one ListenerState, the flag ends at the value it had before the calls, in
\* every interleaving: no toggle is lost.
C25_NoToggleLost ==
    \A t, u \in DOMAIN threads :
        both_toggled(t, u) => is_paused(threads[t].handle) = threads[t].original

(***************************************************************************)
(* The claims on ReplicationListener (specifications SpecListener and      *)
(* SpecPublication).                                                       *)
(***************************************************************************)
\* The last call of generate_migration found the listener paused: it ran
\* no step, wrote no file and returned Ok.
skipped_when_paused ==
    outcome.paused =>
        /\ outcome.steps = <<>>
        /\ outcome.written = <<>>
        /\ outcome.result = "Ok"

\* A call of generate_migration on a paused listener leaves the output
\* directory as it is.
paused_call_keeps_files ==
    (is_paused(1) /\ \E batch \in Batches : GenerateMigration(batch)) => files' = files

\* C15: when the listener is paused at the call of generate_migration,
\* the call runs none of optimize, generate and write, creates no file and
\* returns Ok.
C15_PausedSkipsGeneration == []skipped_when_paused /\ [][paused_call_keeps_files]_vars

\* C15, witness: generate_migration has written a file, and a later call,
\* made on the paused listener, has been skipped.
C15_Witness ==
    /\ outcome.paused
    /\ outcome.result = "Ok"
    /\ files # {}
    /\ last.call = "pause"

\* C18: every successful write of a migration goes to a path that no
\* earlier write into the output directory used, so that no file written
\* before is replaced.
C18_NoFileReplaced == outcome.written # <<>> => ~outcome.replaced

\* The --tables argument is absent or the empty string.
no_tables(tables) == tables = <<>> \/ tables[1] = <<>>

\* The statement that creates the publication for all tables.
for_all_tables == <<"C", "R", "E", "A", "T", "E", " ", "P", "U", "B", "L", "I", "C", "A", "T",
        "I", "O", "N", " ", "r", "e", "p", "l", "i", "g", "r", "a", "t", "e", "_", "p", "u",
                "b", " ", "F", "O", "R", " ", "A", "L", "L", " ", "T", "A", "B", "L", "E", "S">>

\* The statement that creates the publication for the names listed in the
\* text, trimmed.
for_tables(text) ==
    <<"C", "R", "E", "A", "T", "E", " ", "P", "U", "B", "L", "I", "C", "A", "T", "I", "O",
            "N", " ", "r", "e", "p", "l", "i", "g", "r", "a", "t", "e", "_", "p", "u", "b",
                    " ", "F", "O", "R", " ", "T", "A", "B", "L", "E", " ">>
        \o join(trimmed(split(text, ",")), <<",", " ">>)

\* C19: the statement with which listen creates the publication is FOR ALL
\* TABLES when the tables argument is absent or empty, and FOR TABLE with
\* exactly the listed names, trimmed, when it is a non-empty list.
C19_EmptyMeansAllTables ==
    db.executed # <<>> =>
        db.executed[1] = IF no_tables(db.tables[1]) THEN for_all_tables
                         ELSE for_tables(db.tables[1][1])

(***************************************************************************)
(* The claim on merge_alter_tables (specification Spec).                   *)
(***************************************************************************)
\* The clause of an ALTER TABLE statement: what comes after the table name
\* token, the token that follows TABLE, without the whitespace around it.
clause_after_name(sql) ==
    LET name_at == first_of({k \in token_starts(sql) :
                                 k > first_of(keyword_tokens(sql, <<"T", "A", "B", "L", "E">>))})
        clause_at == first_of({k \in token_starts(sql) : k > name_at})
    IN  IF clause_at = 0 THEN <<>> ELSE trim(SubSeq(sql, clause_at, Len(sql)))

\* Records i and i + 1 of the input are a run of AlterTable records on one
\* object that no neighbour extends.
alter_table_pair(i) ==
    /\ changes[i].change_type = Kind("AlterTable")
    /\ changes[i + 1].change_type = Kind("AlterTable")
    /\ same_object(changes[i], changes[i + 1])
    /\ \A j \in {i - 1, i + 2} \cap DOMAIN changes :
          ~(changes[j].change_type = Kind("AlterTable") /\ same_object(changes[j], changes[i]))

\* C20: a run of two consecutive AlterTable records on one object is merged
\* into a record whose sql is "ALTER TABLE <object_name> <clauses>;", the
\* clauses being those of the two members in run order, joined by a comma,
\* and the clause of a member what comes after its table name token.
C20_AlterTableRunMerged ==
    phase = "optimized" =>
        \A i \in 1..(Len(changes) - 1) :
            alter_table_pair(i) =>
                \E j \in DOMAIN optimized :
                    optimized[j].details.sql =
                        <<"A", "L", "T", "E", "R", " ", "T", "A", "B", "L", "E",
                                " ">> \o changes[i].object_name \o <<" ">>
                            \o clause_after_name(changes[i].details.sql) \o <<",", " ">>
                            \o clause_after_name(changes[i + 1].details.sql) \o <<";">>

(***************************************************************************)
(* The claims on the runs optimize merges and on what it passes through    *)
(* (specification Spec).  A group is the records of one key, in arrival    *)
(* order.                                                                  *)
(***************************************************************************)
\* Records a..b of the group are a maximal run of two or more records of
\* the kind.
maximal_run(group, a, b, kind) ==
    /\ a < b
    /\ \A k \in a..b : group[k].change_type = kind
    /\ a > 1 => group[a - 1].change_type # kind
    /\ b < Len(group) => group[b + 1].change_type # kind

\* The texts from the anchor to the end of the members that hold the
\* anchor, in order.
RECURSIVE clauses_from_anchor(_, _)
clauses_from_anchor(members, anchor) ==
    IF members = <<>> THEN <<>>
    ELSE (IF keyword_position(Head(members).details.sql, anchor) # 0
          THEN <<text_from_keyword(Head(members).details.sql, anchor)>>
          ELSE <<>>)
         \o clauses_from_anchor(Tail(members), anchor)

\* The record that stands for a run: its first member, with the sql
\* "ALTER TABLE <object_name> <clauses>;".
run_record(members, anchor) ==
    [members[1] EXCEPT !.details.sql =
        <<"A", "L", "T", "E", "R", " ", "T", "A", "B", "L", "E",
                " ">> \o members[1].object_name \o <<" ">>
            \o join(clauses_from_anchor(members, anchor), <<",", " ">>) \o <<";">>]

\* Every maximal run of the kind in a group of the input has exactly one
\* record in the output, the record that stands for it.
runs_replaced(kind, anchor) ==
    \A key \in group_keys(changes) :
        LET group == pending_changes(changes, key)
        IN  \A a, b \in DOMAIN group :
                maximal_run(group, a, b, kind) =>
                    Cardinality({j \in DOMAIN optimized :
                        optimized[j] = run_record(SubSeq(group, a, b), anchor)}) = 1

\* C21: a maximal run of two or more consecutive AddColumn records, and
\* likewise of AddConstraint records, in a group is replaced by exactly one
\* record: the run's first member with the sql "ALTER TABLE <object_name> ",
\* the clauses of the members that hold the anchor, each from the anchor to
\* the end, joined by ", " in run order, and ";".  The merge never fails.
C21_RunReplacedByFirstMember ==
    /\ phase # "panicked"
    /\ phase = "optimized" =>
          /\ runs_replaced(Kind("AddColumn"), str_ADD_COLUMN)
          /\ runs_replaced(Kind("AddConstraint"), str_ADD_CONSTRAINT)

(***************************************************************************)
(* The claims on the order of the output (specification SpecRuns).  A      *)
(* record carries the time it arrived at, and a merged record the time of  *)
(* its run's first member.                                                 *)
(***************************************************************************)
\* The output records that stand for input record i: the record of its key
\* with the latest time that is not after the time of i.
stand_ins(i) ==
    LET candidates == {j \in DOMAIN optimized :
                          /\ group_key(optimized[j]) = group_key(changes[i])
                          /\ optimized[j].timestamp <= changes[i].timestamp}
    IN  {j \in candidates :
            \A k \in candidates : optimized[k].timestamp <= optimized[j].timestamp}

\* The output records of one key lie next to each other.
groups_contiguous ==
    \A i, j, k \in DOMAIN optimized :
        (i < j /\ j < k /\ group_key(optimized[i]) = group_key(optimized[k]))
            => group_key(optimized[j]) = group_key(optimized[i])

\* C22: optimize keeps the arrival order inside each group: the output
\* records of one key are contiguous, every input record has one output
\* record that stands for it, and for input records a before b of one key
\* the record that stands for a is, or comes before, the one that stands
\* for b.
C22_ArrivalOrderKept ==
    phase = "optimized" =>
        /\ groups_contiguous
        /\ \A a \in DOMAIN changes : Cardinality(stand_ins(a)) = 1
        /\ \A a, b \in DOMAIN changes :
              (a < b /\ group_key(changes[a]) = group_key(changes[b]))
                  => \A i \in stand_ins(a), j \in stand_ins(b) : i <= j

\* Three records arrived interleaved, the middle one of another key, none
\* was merged, and the output holds the two records of the first key next
\* to each other.
C22_Witness ==
    /\ phase = "optimized"
    /\ Len(changes) = 3
    /\ group_key(changes[1]) = group_key(changes[3])
    /\ group_key(changes[1]) # group_key(changes[2])
    /\ Len(optimized) = 3
    /\ groups_contiguous

\* Input records a and b are neighbours in their group.
adjacent_in_group(a, b) ==
    /\ a # b
    /\ group_key(changes[a]) = group_key(changes[b])
    /\ \A k \in DOMAIN changes :
          ((a < k /\ k < b) \/ (b < k /\ k < a))
              => group_key(changes[k]) # group_key(changes[a])

\* Input record a is of a kind that is never merged, or is a run of length
\* 1: no neighbour in its group has its kind.
passes_through(a) ==
    \/ changes[a].change_type \notin
          {Kind("AddColumn"), Kind("AlterTable"), Kind("AddConstraint")}
    \/ \A b \in DOMAIN changes :
          adjacent_in_group(a, b) => changes[b].change_type # changes[a].change_type

\* C23: a record whose kind is not AddColumn, AlterTable or AddConstraint,
\* and a record that forms a run of length 1, is in the output exactly once
\* with every field unchanged, before the records that stand for the later
\* records of its group and after those that stand for the earlier ones.
C23_UnmergedRecordsKept ==
    phase = "optimized" =>
        \A a \in DOMAIN changes :
            passes_through(a) =>
                /\ Cardinality({j \in DOMAIN optimized : optimized[j] = changes[a]}) = 1
                /\ \A j \in stand_ins(a) : optimized[j] = changes[a]
                /\ \A b \in DOMAIN changes :
                      (a # b /\ group_key(changes[a]) = group_key(changes[b]))
                          => \A i \in stand_ins(a), j \in stand_ins(b) :
                                (a < b) = (i < j)

\* Two DropColumn records of one object arrived one after the other, then
\* a single AddColumn record, and optimize returned.
C23_Witness ==
    /\ phase = "optimized"
    /\ Len(changes) = 3
    /\ changes[1].change_type = Kind("DropColumn")
    /\ changes[2] = [changes[1] EXCEPT !.timestamp = 2]
    /\ changes[3].change_type = Kind("AddColumn")
    /\ group_key(changes[3]) = group_key(changes[1])
    /\ passes_through(3)

(***************************************************************************)
(* The rollback of the merged operations (specification Spec, the batch    *)
(* going through optimize and then generate).                              *)
(***************************************************************************)
\* Some operation's down text drops the constraint of the table.
dropped_by(ops, table, name) ==
    \E k \in DOMAIN ops :
        /\ Len(ops[k]) = 1
        /\ ops[k][1].key = "raw_sql"
        /\ contains(ops[k][1].value.down,
                    <<"A", "L", "T", "E", "R", " ", "T", "A", "B", "L", "E",
                            " ">> \o table \o <<" ", "D", "R", "O", "P", " ", "C", "O", "N",
                                    "S", "T", "R", "A", "I", "N", "T", " ", "I", "F", " ",
                                            "E", "X", "I", "S", "T", "S", " ">> \o name)

\* C24: after optimize and generate, every constraint that an AddConstraint
\* input record adds, and whose name can be extracted, is dropped by the
\* down text of some generated operation, also when AddConstraint records
\* of one table were merged into one record.
C24_MergedRollbackDropsEveryConstraint ==
    phase \in {"piped", "piped again"} =>
        \A i \in DOMAIN changes :
            ( /\ changes[i].change_type = Kind("AddConstraint")
              /\ keyword_position(changes[i].details.sql, str_CONSTRAINT) # 0
              /\ named_constraint(changes[i].details.sql) # <<>> )
            => dropped_by(runs[1], changes[i].object_name,
                          named_constraint(changes[i].details.sql))

\* C26: optimize and generate complete normally for every record whose sql
\* is well-formed UTF-8, also when a character of the sql has an uppercase
\* form of another byte length: no call panics on a slice of the sql.
C26_NoPanic == phase # "panicked"

====
